---- MODULE Spec2Model ----
(***************************************************************************)
(* A model of the RustBot agent runtime: the external tool plane           *)
(* (src/mcp.rs), the agentic loop (src/agent.rs, process_message), the     *)
(* scheduler with its durable task store, startup restore and background   *)
(* job runner (src/scheduler/mod.rs, src/scheduler/reminders.rs,           *)
(* src/agent.rs, src/main.rs), the memory store (src/memory) and the       *)
(* built-in file tools (src/tools.rs).                                     *)
(*                                                                         *)
(* Each subsystem has its own next-state relation and specification over   *)
(* the one set of variables: SpecMcp, SpecAgent (one process_message call  *)
(* on some history), SpecTurns (consecutive calls), SpecSched, SpecStore   *)
(* and SpecEmbed (conversations and messages, without and with an          *)
(* embedding provider), SpecKnow (knowledge), SpecSchema (the vector       *)
(* tables over opens of the database), SpecBox (file tools).  Handlers     *)
(* are split at their await points, where other tasks of the runtime run.  *)
(* Storage operations on the embedded database are taken to succeed.       *)
(***************************************************************************)
EXTENDS Integers, Sequences, FiniteSets, TLC

VARIABLES
    \* ---- external tool plane (src/mcp.rs) ----
    call,        \* per caller: the call_tool invocation it is executing
    client,      \* per connection: holder of McpConnection.client's mutex (0 = free)
    alive,       \* per connection: whether the server subprocess is running
    \* ---- agentic loop (src/agent.rs, process_message) ----
    conversations, \* whether the conversation row of the user exists
    db,          \* the messages table of that conversation, in insert order
    turn,        \* per task of the runtime: the process_message call it runs
    started,     \* number of process_message calls started so far
    budget,      \* number of process_message calls still to be started
    \* ---- scheduler, task store, restore, job runner ----
    now,         \* the wall clock (chrono::Utc::now)
    tasks,       \* the scheduled_tasks table: task id -> row
    engine,      \* the jobs held by the in-memory scheduler engine
    uuids,       \* number of job uuids the engine has handed out
    job_rx,      \* the requests in the job channel, oldest first
    runner,      \* the background job runner
    main,        \* main(): startup restore, then serving
    sched,       \* the schedule_task tool call in progress
    history,     \* what has happened to each task's fires, over all process lives
    \* ---- memory store: conversations and messages (src/memory) ----
    convs,       \* the conversations table: rows [id, user, updated_at]
    available,   \* an embedding provider is configured (EmbeddingEngine.config)
    messages,    \* the messages table: rows [rowid, conv, role, kind, created_at, seq]
    embeds,      \* the message_embeddings table: rows [rowid, seq]
    embedTasks,  \* background embedding tasks spawned by save_message
    convIds,     \* number of conversation ids handed out
    saved,       \* ghost: the completed save_message calls [conv, user], in order
    since,       \* per user: what happened since the last clear_conversation
    removed,     \* seq of every message a clear_conversation has deleted
    \* ---- memory store: knowledge (src/memory/knowledge.rs) ----
    knowledge,   \* the knowledge table: rows [rowid, key, value]
    kembeds,     \* the knowledge_embeddings table: rows [rowid, text]
    remember,    \* per caller: the remember call it is in
    klog,        \* ghost: the remember and forget calls that completed, in order
    \* ---- memory store: the vector tables of the database file (src/memory/mod.rs) ----
    schema,      \* schema_meta's embedding_dims and the two vec0 tables
    opening,     \* MemoryStore::open: where it is, its dimension, what it found
    \* ---- built-in file tools (src/tools.rs) ----
    files,       \* the file system: nodes [path, type, target]
    box,         \* the built-in tool call: its tool, request, result
    touched,     \* the canonical paths the call read, wrote, created or listed
    \* ---- functions of their arguments alone ----
    given,       \* the arguments of the call
    outcome,     \* what the call returned and did
    \* ---- skills and the system prompt (src/agent.rs, src/skills) ----
    skillsDir,   \* the skills found in the skills directory
    skills,      \* Agent.skills: the live registry
    installed,   \* ghost: every registry that was the live one, in order
    chat,        \* per actor: its process_message call, up to the LLM call
    persisted,   \* the messages table of the conversation, in insert order
    \* ---- background job runner, request by request (src/main.rs) ----
    sent,        \* number of requests the fire closures have sent
    handled,     \* ghost: the requests the runner is done with, in order
    \* ---- the connection mutex and the embedder (src/memory) ----
    conn,        \* holder of MemoryStore.conn's mutex ("none" = free)
    op,          \* per task: the memory operation it is in and its next step
    inflight     \* the tasks whose embedding request is in flight

mcpVars == <<call, client, alive>>

agentVars == <<conversations, db, turn, started, budget>>

schedVars ==
    <<now, tasks, engine, uuids, job_rx, runner, main, sched, history>>

storeVars == <<available, convs, messages, embeds, embedTasks, convIds, saved, since, removed>>

knowVars == <<knowledge, kembeds, remember, klog>>

\* Everything of the memory store but the conversation tables.
schemaVars == <<schema, opening>>

boxVars == <<files, box, touched>>

pureVars == <<given, outcome>>

skillVars == <<skillsDir, skills, installed, chat, persisted>>

runVars == <<sent, handled>>

lockVars == <<conn, op, inflight>>

lateVars == <<runVars, lockVars>>

restVars == <<knowVars, schemaVars, boxVars, pureVars, skillVars, lateVars>>

\* Everything but the arguments and the outcome of a call.
stateVars == <<mcpVars, agentVars, schedVars, storeVars, knowVars, schemaVars, boxVars, skillVars, lateVars>>

memoryVars == <<storeVars, restVars>>

vars ==
    <<call, client, alive, conversations, db, turn, started, budget,
      now, tasks, engine, uuids, job_rx, runner, main, sched, history,
      available, convs, messages, embeds, embedTasks, convIds, saved, since, removed,
      knowledge, kembeds, remember, klog, schema, opening, files, box, touched,
      given, outcome, skillsDir, skills, installed, chat, persisted,
      sent, handled, conn, op, inflight>>

(***************************************************************************)
(*                    EXTERNAL TOOL PLANE  (src/mcp.rs)                    *)
(***************************************************************************)

\* Number of concurrent turns that may call external tools.
MaxCallers == 2

Callers == 1..MaxCallers

\* McpManager.connections: connection name -> advertised tool names.
connections == [fs |-> {"read"}, web |-> {"get"}]

Servers == DOMAIN connections

\* Names the LLM may ask for: the published names and names nobody publishes.
ToolNames ==
    {[server |-> s, tool |-> t] : s \in Servers, t \in {"read", "get"}}

\* The connections whose name prefixes the tool name and that advertise it.
Route(name) ==
    {s \in Servers : s = name.server /\ name.tool \in connections[s]}

NoCall ==
    [pc |-> "idle", server |-> "none", invoked |-> 0, first |-> "none",
     respawn |-> "none", second |-> "none", result |-> "none", out |-> <<>>]

\* The mutex of a connection can be taken when nobody holds it.
LockFreeAlways(s) == TRUE

LockFree(s) == client[s] = 0

\* Agent::execute_tool's arm for external tools: Ok(result) => result,
\* Err(e) => format!("MCP tool error: {}", e).  Always a string.
ExecuteToolMcpPropagate(result) ==
    IF result = "ok" THEN <<"string", "result">> ELSE <<"abort", result>>

ExecuteToolMcp(result) ==
    IF result = "ok" THEN <<"string", "result">>
    ELSE <<"string", "MCP tool error", result>>

\* call_tool up to the lock: strip the prefix, find the connection.
CallToolBegin(c, name) ==
    /\ call[c].pc = "idle"
    /\ IF Route(name) = {}
       THEN call' = [call EXCEPT ![c] =
                [NoCall EXCEPT !.pc = "returned", !.result = "not found"]]
       ELSE \E s \in Route(name) :
                call' = [call EXCEPT ![c] =
                    [NoCall EXCEPT !.pc = "waiting", !.server = s]]
    /\ UNCHANGED <<client, alive, agentVars, schedVars, memoryVars>>

\* connection.client.lock().await
CallToolLock(c) ==
    /\ call[c].pc = "waiting"
    /\ LockFree(call[c].server)
    /\ client' = [client EXCEPT ![call[c].server] = c]
    /\ call' = [call EXCEPT ![c].pc = "first"]
    /\ UNCHANGED <<alive, agentVars, schedVars, memoryVars>>

\* client_guard.call_tool(make_params()).await, first attempt.
CallToolFirst(c, ok) ==
    /\ call[c].pc = "first"
    /\ ok => alive[call[c].server]
    /\ IF ok
       THEN /\ call' = [call EXCEPT ![c].pc = "returned", ![c].first = "ok",
                            ![c].invoked = @ + 1, ![c].result = "ok"]
            /\ client' = [client EXCEPT ![call[c].server] = 0]
       ELSE /\ call' = [call EXCEPT ![c].pc = "reconnect", ![c].first = "err",
                            ![c].invoked = @ + 1]
            /\ UNCHANGED client
    /\ UNCHANGED <<alive, agentVars, schedVars, memoryVars>>

\* start_client(&connection.config).await after the first attempt failed.
CallToolReconnect(c, ok) ==
    /\ call[c].pc = "reconnect"
    /\ IF ok
       THEN /\ call' = [call EXCEPT ![c].pc = "second", ![c].respawn = "ok"]
            /\ alive' = [alive EXCEPT ![call[c].server] = TRUE]
            /\ UNCHANGED client
       ELSE /\ call' = [call EXCEPT ![c].pc = "returned", ![c].respawn = "err",
                            ![c].result = "reconnect failed"]
            /\ client' = [client EXCEPT ![call[c].server] = 0]
            /\ UNCHANGED alive
    /\ UNCHANGED <<agentVars, schedVars, memoryVars>>

\* client_guard.call_tool(make_params()).await on the new client.
CallToolSecond(c, ok) ==
    /\ call[c].pc = "second"
    /\ ok => alive[call[c].server]
    /\ call' = [call EXCEPT ![c].pc = "returned",
                     ![c].second = IF ok THEN "ok" ELSE "err",
                     ![c].invoked = @ + 1,
                     ![c].result = IF ok THEN "ok" ELSE "failed after reconnect"]
    /\ client' = [client EXCEPT ![call[c].server] = 0]
    /\ UNCHANGED <<alive, agentVars, schedVars, memoryVars>>

\* Back in execute_tool: the Result becomes the tool-result string.
ExecuteToolReturn(c) ==
    /\ call[c].pc = "returned"
    /\ call' = [call EXCEPT ![c].pc = "idle", ![c].out = ExecuteToolMcp(call[c].result)]
    /\ UNCHANGED <<client, alive, agentVars, schedVars, memoryVars>>

\* The server subprocess dies.
ServerCrash(s) ==
    /\ alive[s]
    /\ alive' = [alive EXCEPT ![s] = FALSE]
    /\ UNCHANGED <<call, client, agentVars, schedVars, memoryVars>>

InitMcp ==
    /\ call = [c \in Callers |-> NoCall]
    /\ client = [s \in Servers |-> 0]
    /\ alive = [s \in Servers |-> TRUE]

NextMcp ==
    \/ \E c \in Callers, name \in ToolNames : CallToolBegin(c, name)
    \/ \E c \in Callers : CallToolLock(c)
    \/ \E c \in Callers, ok \in BOOLEAN : CallToolFirst(c, ok)
    \/ \E c \in Callers, ok \in BOOLEAN : CallToolReconnect(c, ok)
    \/ \E c \in Callers, ok \in BOOLEAN : CallToolSecond(c, ok)
    \/ \E c \in Callers : ExecuteToolReturn(c)
    \/ \E s \in Servers : ServerCrash(s)


(***************************************************************************)
(*             AGENTIC LOOP  (src/agent.rs, process_message)               *)
(***************************************************************************)

\* config.max_iterations(): the iteration budget of one process_message call.
MaxIterations == 2

\* Largest number of tool calls in one LLM response.
MaxCalls == 2

\* Number of process_message calls started, one after the other, in SpecTurns.
MaxTurns == 2

\* The tasks that run process_message for one user: the transport's message
\* handler (one update of a chat at a time) and the background job runner.
Actors == {"handler", "runner"}

MaxIterText == "I've reached the maximum number of tool call iterations."

NoTurn ==
    [pc |-> "idle", id |-> 0, messages |-> <<>>, iteration |-> 0,
     pending |-> <<>>, llmCalls |-> 0, toolRounds |-> 0,
     last |-> <<>>, seenFailed |-> {}, ret |-> "none"]

\* ChatMessage values; by is the process_message call that produced the row.
SystemMsg(t) ==
    [role |-> "system", content |-> "prompt", tool_calls |-> <<>>,
     tool_call_id |-> <<>>, by |-> t]

UserMsg(t) ==
    [role |-> "user", content |-> <<"text", t>>, tool_calls |-> <<>>,
     tool_call_id |-> <<>>, by |-> t]

\* The tool calls of the response to LLM call number i of turn t: ids in order.
ToolCalls(t, i, n) == [k \in 1..n |-> <<t, i, k>>]

AssistantMsg(t, content, calls) ==
    [role |-> "assistant", content |-> content, tool_calls |-> calls,
     tool_call_id |-> <<>>, by |-> t]

ToolMsgNoId(t, id, result) ==
    [role |-> "tool", content |-> result, tool_calls |-> <<>>,
     tool_call_id |-> <<>>, by |-> t]

ToolMsg(t, id, result) ==
    [role |-> "tool", content |-> result, tool_calls |-> <<>>,
     tool_call_id |-> id, by |-> t]

\* serde_json::from_str(arguments).unwrap_or(empty object)
ParseArguments(arguments) ==
    IF arguments = "json" THEN "object" ELSE "empty object"

\* execute_tool returns a String: the result, or an error phrase.
ExecuteToolNoResult(arguments, fails) ==
    IF fails THEN "none" ELSE "result"

ExecuteTool(arguments, fails) ==
    IF fails THEN "Tool error" ELSE "result"

\* load_messages: every row of the conversation, ORDER BY created_at ASC.
\* The sequence db is the table in that order (rows of one second stand in
\* insert order), so the query returns it as it is.
LoadMessagesNewest(rows) ==
    IF rows = <<>> THEN <<>> ELSE <<rows[1]>>

LoadMessages(rows) == rows

\* The first message with role system gets the current prompt (in memory only).
RefreshSystem(msgs) ==
    IF \E i \in 1..Len(msgs) : msgs[i].role = "system"
    THEN LET i == CHOOSE i \in 1..Len(msgs) :
                    /\ msgs[i].role = "system"
                    /\ \A j \in 1..(i - 1) : msgs[j].role # "system"
         IN  [msgs EXCEPT ![i].content = "prompt"]
    ELSE msgs

\* messages.is_empty(): the conversation is new.
IsEmptyAlways(msgs) == TRUE

IsEmpty(msgs) == msgs = <<>>

\* The loop runs while iteration < max_iterations.
BudgetLeftOffByOne(i) == i <= MaxIterations

BudgetLeft(i) == i < MaxIterations

\* process_message is entered: get_or_create_conversation.
ProcessMessage(a) ==
    /\ turn[a].pc \in {"idle", "done", "error"}
    /\ budget > 0
    /\ budget' = budget - 1
    /\ started' = started + 1
    /\ conversations' = TRUE
    /\ turn' = [turn EXCEPT ![a] = [NoTurn EXCEPT !.pc = "load", !.id = started + 1]]
    /\ UNCHANGED <<db, mcpVars, schedVars, memoryVars>>

\* memory.load_messages(&conversation_id)
Load(a) ==
    /\ turn[a].pc = "load"
    /\ turn' = [turn EXCEPT ![a].pc = "system",
                            ![a].messages = LoadMessages(db),
                            ![a].seenFailed =
                                {turn[b].id : b \in {x \in Actors : turn[x].pc = "error"}}]
    /\ UNCHANGED <<db, conversations, started, budget, mcpVars, schedVars, memoryVars>>

\* The system prompt: saved and pushed for a new conversation, refreshed in
\* memory for an existing one.
SystemPrompt(a) ==
    /\ turn[a].pc = "system"
    /\ IF IsEmpty(turn[a].messages)
       THEN /\ db' = Append(db, SystemMsg(turn[a].id))
            /\ turn' = [turn EXCEPT ![a].pc = "user",
                                    ![a].messages = <<SystemMsg(turn[a].id)>>]
       ELSE /\ turn' = [turn EXCEPT ![a].pc = "user",
                                    ![a].messages = RefreshSystem(@)]
            /\ UNCHANGED db
    /\ UNCHANGED <<conversations, started, budget, mcpVars, schedVars, memoryVars>>

\* The user message is saved and pushed.
SaveUser(a) ==
    /\ turn[a].pc = "user"
    /\ db' = Append(db, UserMsg(turn[a].id))
    /\ turn' = [turn EXCEPT ![a].pc = "llm",
                            ![a].messages = Append(@, UserMsg(turn[a].id))]
    /\ UNCHANGED <<conversations, started, budget, mcpVars, schedVars, memoryVars>>

\* llm.chat fails: the error is returned by the ? operator.
LlmError(a) ==
    /\ turn[a].pc = "llm"
    /\ BudgetLeft(turn[a].iteration)
    /\ turn' = [turn EXCEPT ![a].pc = "error", ![a].ret = "Err",
                            ![a].llmCalls = @ + 1]
    /\ UNCHANGED <<db, conversations, started, budget, mcpVars, schedVars, memoryVars>>

\* llm.chat returns n >= 1 tool calls: the assistant message is saved and
\* pushed.  (llm.chat touches no shared state, so it is one step with the
\* save_message that follows it.)
LlmToolCalls(a, n) ==
    /\ turn[a].pc = "llm"
    /\ BudgetLeft(turn[a].iteration)
    /\ LET t == turn[a].id
           calls == ToolCalls(t, turn[a].llmCalls + 1, n)
           msg == AssistantMsg(t, "none", calls)
       IN  /\ db' = Append(db, msg)
           /\ turn' = [turn EXCEPT ![a].pc = "tools",
                                   ![a].messages = Append(@, msg),
                                   ![a].pending = calls,
                                   ![a].llmCalls = @ + 1,
                                   ![a].toolRounds = @ + 1]
    /\ UNCHANGED <<conversations, started, budget, mcpVars, schedVars, memoryVars>>

\* llm.chat returns no tool calls (tool_calls absent or an empty list): the
\* response is saved and its content returned.
LlmFinal(a) ==
    /\ turn[a].pc = "llm"
    /\ BudgetLeft(turn[a].iteration)
    /\ db' = Append(db, AssistantMsg(turn[a].id, "answer", <<>>))
    /\ turn' = [turn EXCEPT ![a].pc = "done", ![a].ret = "answer",
                            ![a].llmCalls = @ + 1]
    /\ UNCHANGED <<conversations, started, budget, mcpVars, schedVars, memoryVars>>

\* The next tool call of the response: parse its arguments, execute it, save
\* and push the tool message; after the last one, continue the loop.
ToolCall(a, arguments, fails) ==
    /\ turn[a].pc = "tools"
    /\ LET t == turn[a].id
           id == Head(turn[a].pending)
           result == ExecuteTool(ParseArguments(arguments), fails)
           msg == ToolMsg(t, id, result)
           rest == Tail(turn[a].pending)
       IN  /\ db' = Append(db, msg)
           /\ turn' = [turn EXCEPT
                  ![a].messages = Append(@, msg),
                  ![a].pending = rest,
                  ![a].last = [id |-> id, arguments |-> arguments,
                               parsed |-> ParseArguments(arguments),
                               fails |-> fails],
                  ![a].pc = IF rest = <<>> THEN "llm" ELSE "tools",
                  ![a].iteration = IF rest = <<>> THEN @ + 1 ELSE @]
    /\ UNCHANGED <<conversations, started, budget, mcpVars, schedVars, memoryVars>>

\* The for loop is over: the fixed text is returned, nothing is saved.
Exhausted(a) ==
    /\ turn[a].pc = "llm"
    /\ ~BudgetLeft(turn[a].iteration)
    /\ turn' = [turn EXCEPT ![a].pc = "done", ![a].ret = MaxIterText]
    /\ UNCHANGED <<db, conversations, started, budget, mcpVars, schedVars, memoryVars>>

\* No process_message call is running.
Quiet == \A b \in Actors : turn[b].pc \in {"idle", "done", "error"}

\* What the messages table may hold when a call starts: nothing, a finished
\* turn, or a turn whose LLM call failed.
PriorHistories ==
    { <<>>,
      <<SystemMsg(0), UserMsg(0), AssistantMsg(0, "answer", <<>>)>>,
      <<SystemMsg(0), UserMsg(0)>> }

\* One process_message call on a conversation with some history.
InitAgent ==
    /\ db \in PriorHistories
    /\ conversations = (db # <<>>)
    /\ turn = [a \in Actors |-> NoTurn]
    /\ started = 0
    /\ budget = 1

\* MaxTurns process_message calls on a new conversation.
InitTurns ==
    /\ db = <<>>
    /\ conversations = FALSE
    /\ turn = [a \in Actors |-> NoTurn]
    /\ started = 0
    /\ budget = MaxTurns

NextAgent ==
    \/ \E a \in Actors : Quiet /\ ProcessMessage(a)
    \/ \E a \in Actors : Load(a)
    \/ \E a \in Actors : SystemPrompt(a)
    \/ \E a \in Actors : SaveUser(a)
    \/ \E a \in Actors : LlmError(a)
    \/ \E a \in Actors, n \in 1..MaxCalls : LlmToolCalls(a, n)
    \/ \E a \in Actors : LlmFinal(a)
    \/ \E a \in Actors, arguments \in {"json", "garbage"}, fails \in BOOLEAN :
            ToolCall(a, arguments, fails)
    \/ \E a \in Actors : Exhausted(a)

\* The same calls one after the other, with single tool calls that succeed.
NextTurns ==
    \/ \E a \in Actors : Quiet /\ ProcessMessage(a)
    \/ \E a \in Actors : Load(a)
    \/ \E a \in Actors : SystemPrompt(a)
    \/ \E a \in Actors : SaveUser(a)
    \/ \E a \in Actors : LlmError(a)
    \/ \E a \in Actors : LlmToolCalls(a, 1)
    \/ \E a \in Actors : LlmFinal(a)
    \/ \E a \in Actors : ToolCall(a, "json", FALSE)
    \/ \E a \in Actors : Exhausted(a)

\* The handler's and the runner's calls for one user as the runtime runs
\* them: each on its own task, the runner's whenever a job request arrives.
NextConcurrent ==
    \/ \E a \in Actors : ProcessMessage(a)
    \/ \E a \in Actors : Load(a)
    \/ \E a \in Actors : SystemPrompt(a)
    \/ \E a \in Actors : SaveUser(a)
    \/ \E a \in Actors : LlmError(a)
    \/ \E a \in Actors : LlmToolCalls(a, 1)
    \/ \E a \in Actors : LlmFinal(a)
    \/ \E a \in Actors : ToolCall(a, "json", FALSE)
    \/ \E a \in Actors : Exhausted(a)

(***************************************************************************)
(*    SCHEDULER, TASK STORE, STARTUP RESTORE, BACKGROUND JOB RUNNER        *)
(*    (src/scheduler/mod.rs, src/scheduler/reminders.rs, src/agent.rs,     *)
(*     src/main.rs)                                                        *)
(***************************************************************************)

\* Number of rows the scheduled_tasks table can hold.
MaxTasks == 1

\* Last instant of the clock.
MaxTime == 2

\* Number of job uuids the engine hands out.
MaxJobs == 2

\* Number of requests the (unbounded) job channel holds in the model.
MaxQueue == 1

TaskIds == 1..MaxTasks

NoTask ==
    [status |-> "none", scheduler_job_id |-> 0, trigger_type |-> "none",
     trigger_value |-> [kind |-> "none", n |-> 0]]

\* trigger_value strings: a timestamp that denotes the instant n, a text that
\* is no timestamp, a cron expression with n fields.
Instant(n) == [kind |-> "instant", n |-> n]

Text == [kind |-> "text", n |-> 0]

Cron(n) == [kind |-> "cron", n |-> n]

\* parse_one_shot_delay: Err for a string that is no timestamp and for an
\* instant dt <= now, else Ok(dt - now).
ParseOneShotDelayLax(trigger_value, t) ==
    IF trigger_value.kind # "instant" THEN [ok |-> FALSE, delay |-> 0]
    ELSE IF trigger_value.n < t THEN [ok |-> FALSE, delay |-> 0]
    ELSE [ok |-> TRUE, delay |-> trigger_value.n - t]

ParseOneShotDelay(trigger_value, t) ==
    IF trigger_value.kind # "instant" THEN [ok |-> FALSE, delay |-> 0]
    ELSE IF trigger_value.n <= t THEN [ok |-> FALSE, delay |-> 0]
    ELSE [ok |-> TRUE, delay |-> trigger_value.n - t]

\* validate_cron_expr: the whitespace split has 6 fields.
ValidateCronExpr(trigger_value) ==
    trigger_value.kind = "cron" /\ trigger_value.n = 6

\* ScheduledTaskStore::set_status and update_scheduler_job_id.
SetStatus(tbl, id, status) == [tbl EXCEPT ![id].status = status]

UpdateSchedulerJobIdSkip(tbl, id, job_id) == tbl

UpdateSchedulerJobId(tbl, id, job_id) == [tbl EXCEPT ![id].scheduler_job_id = job_id]

\* ScheduledTaskStore::list_all_active, oldest first.
RECURSIVE Ascending(_)
Ascending(S) ==
    IF S = {} THEN <<>>
    ELSE LET m == CHOOSE x \in S : \A y \in S : x <= y
         IN  <<m>> \o Ascending(S \ {m})

ListAllActive == Ascending({t \in DOMAIN tasks : tasks[t].status = "active"})

\* A job of the engine: its uuid, the task whose fire closure it holds, the
\* instant it is due (registration time + delay), whether the wrapper's
\* task_opt still holds the closure, and how often the closure has run.
OneShotJob(uuid, t, delay) ==
    [uuid |-> uuid, task |-> t, one_shot |-> TRUE, due |-> now + delay,
     task_opt |-> TRUE, calls |-> 0]

CronJob(uuid, t) ==
    [uuid |-> uuid, task |-> t, one_shot |-> FALSE, due |-> 0,
     task_opt |-> TRUE, calls |-> 0]

\* ScheduledJobRequest sent by the fire closure of task t.
Request(t) == [task_id |-> t, is_recurring |-> tasks[t].trigger_type = "recurring"]

NoRunner == [pc |-> "recv", req |-> <<>>, result |-> "none"]

NoSched ==
    [pc |-> "none", task |-> 0, uuid |-> 0, result |-> "none", delay |-> 0]

NoHistory == [taken |-> FALSE, processed |-> 0, pruned |-> FALSE]

engineVars == <<engine, uuids>>

\* A turn is running in which the LLM can call the scheduling tools: a user
\* turn once the transport runs, the runner's turn while it is in the agent.
TurnRunning(by) ==
    \/ by = "handler" /\ main.pc = "serving"
    \/ by = "runner" /\ runner.pc = "call"

\* add_one_shot_job's callback: task_opt.take().map(|f| f()).
TakeKeeps(job) == [job EXCEPT !.calls = @ + 1]

Take(job) == [job EXCEPT !.task_opt = FALSE, !.calls = @ + 1]

\* The runner marks a one-shot completed before it runs the agent.
MarkBeforeRunNever(req) == FALSE

MarkBeforeRun(req) == ~req.is_recurring

\* The runner marks a one-shot failed when the agent call failed.
MarkFailedAlways(req, ok) == ~ok

MarkFailed(req, ok) == ~ok /\ ~req.is_recurring

\* schedule_task when the engine refuses the job: set_status(task_id, "failed").
RegistrationFailedKeep(tbl, id) == tbl

RegistrationFailed(tbl, id) == SetStatus(tbl, id, "failed")

\* cancel_scheduled_task: remove_job(uuid) for the uuid parsed from the row's
\* scheduler_job_id, if it has one; the engine drops the job with that uuid.
RemoveJobNone(jobs, job_id) == jobs

RemoveJob(jobs, job_id) == {j \in jobs : j.uuid # job_id}

\* schedule_task with arguments that fail validation: nothing is persisted.
ScheduleTaskRejected(by, trigger_type, trigger_value) ==
    /\ TurnRunning(by) /\ sched.pc = "none"
    /\ \/ trigger_type = "one_shot" /\ ~ParseOneShotDelay(trigger_value, now).ok
       \/ trigger_type = "recurring" /\ ~ValidateCronExpr(trigger_value)
       \/ trigger_type \notin {"one_shot", "recurring"}
    /\ sched' = [NoSched EXCEPT !.pc = "return", !.result =
                    IF trigger_type = "one_shot" THEN "Invalid trigger"
                    ELSE IF trigger_type = "recurring" THEN "Invalid cron expression"
                    ELSE "Unknown trigger_type"]
    /\ UNCHANGED <<now, tasks, engine, uuids, job_rx, runner, main, history,
                   mcpVars, agentVars, memoryVars>>

\* The string arguments schedule_task requires.
Arguments == {"trigger_type", "trigger_value", "prompt", "description"}

\* schedule_task without one of its arguments: the result names the missing
\* argument (one string stands for the four), nothing is done.
ScheduleTaskMissing(by, argument) ==
    /\ TurnRunning(by) /\ sched.pc = "none"
    /\ sched' = [NoSched EXCEPT !.pc = "return", !.result = "Missing argument"]
    /\ UNCHANGED <<now, tasks, engine, uuids, job_rx, runner, main, history,
                   mcpVars, agentVars, memoryVars>>

\* schedule_task up to task_store.create: the row is inserted, status active,
\* scheduler_job_id NULL.
ScheduleTaskCreate(by, trigger_type, trigger_value) ==
    /\ TurnRunning(by) /\ sched.pc = "none"
    /\ \/ trigger_type = "one_shot" /\ ParseOneShotDelay(trigger_value, now).ok
       \/ trigger_type = "recurring" /\ ValidateCronExpr(trigger_value)
    /\ \E t \in TaskIds :
        /\ tasks[t].status = "none"
        /\ \A u \in TaskIds : u < t => tasks[u].status # "none"
        /\ tasks' = [tasks EXCEPT ![t] =
                [status |-> "active", scheduler_job_id |-> 0,
                 trigger_type |-> trigger_type, trigger_value |-> trigger_value]]
        /\ sched' = [pc |-> "register", task |-> t, uuid |-> 0, result |-> "none",
                     delay |-> ParseOneShotDelay(trigger_value, now).delay]
    /\ UNCHANGED <<now, engine, uuids, job_rx, runner, main, history,
                   mcpVars, agentVars, memoryVars>>

\* scheduler.add_one_shot_job / add_cron_job; on Err the row is set failed.
ScheduleTaskRegister(ok) ==
    /\ sched.pc = "register"
    /\ LET t == sched.task IN
       IF ok
       THEN /\ uuids < MaxJobs
            /\ uuids' = uuids + 1
            /\ engine' = engine \cup
                    {IF tasks[t].trigger_type = "one_shot"
                     THEN OneShotJob(uuids + 1, t, sched.delay)
                     ELSE CronJob(uuids + 1, t)}
            /\ sched' = [sched EXCEPT !.pc = "persist", !.uuid = uuids + 1]
            /\ UNCHANGED tasks
       ELSE /\ tasks' = RegistrationFailed(tasks, t)
            /\ sched' = [NoSched EXCEPT !.pc = "return", !.task = t,
                            !.result = "Failed to register task with scheduler"]
            /\ UNCHANGED engineVars
    /\ UNCHANGED <<now, job_rx, runner, main, history,
                   mcpVars, agentVars, memoryVars>>

\* task_store.update_scheduler_job_id(&task_id, &sched_id)
ScheduleTaskPersist ==
    /\ sched.pc = "persist"
    /\ tasks' = UpdateSchedulerJobId(tasks, sched.task, sched.uuid)
    /\ sched' = [NoSched EXCEPT !.pc = "return", !.task = sched.task,
                    !.result = "Task scheduled!"]
    /\ UNCHANGED <<now, engine, uuids, job_rx, runner, main, history,
                   mcpVars, agentVars, memoryVars>>

\* execute_tool returns the result string of schedule_task.
ScheduleTaskReturn ==
    /\ sched.pc = "return"
    /\ sched' = NoSched
    /\ UNCHANGED <<now, tasks, engine, uuids, job_rx, runner, main, history,
                   mcpVars, agentVars, memoryVars>>

\* cancel_scheduled_task: remove the job named by scheduler_job_id from the
\* engine, then set the row cancelled.
CancelScheduledTask(by, t) ==
    /\ TurnRunning(by)
    /\ tasks[t].status # "none"
    /\ engine' = RemoveJob(engine, tasks[t].scheduler_job_id)
    /\ tasks' = SetStatus(tasks, t, "cancelled")
    /\ <<engine', tasks'>> # <<engine, tasks>>
    /\ UNCHANGED <<now, uuids, job_rx, runner, main, sched, history,
                   mcpVars, agentVars, memoryVars>>

\* restore_scheduled_tasks when the engine returns Err for a task: the error is
\* logged and the for loop goes on with the tasks after it.
AfterRefusalAbort(list) == <<>>

AfterRefusal(list) == Tail(list)

\* restore_scheduled_tasks: task_store.list_all_active().
RestoreList ==
    /\ main.pc = "boot"
    /\ main' = [pc |-> "restore", list |-> ListAllActive, uuid |-> 0]
    /\ UNCHANGED <<now, tasks, engine, uuids, job_rx, runner, sched, history,
                   mcpVars, agentVars, memoryVars>>

\* The next task of the list: a one-shot that does not parse to a future
\* instant is set completed and skipped; otherwise the job is added to the
\* engine (which may refuse it).
RestoreTask(ok) ==
    /\ main.pc = "restore" /\ main.list # <<>> /\ main.uuid = 0
    /\ LET t == Head(main.list)
           r == ParseOneShotDelay(tasks[t].trigger_value, now)
       IN  IF tasks[t].trigger_type = "one_shot" /\ ~r.ok
           THEN /\ tasks' = SetStatus(tasks, t, "completed")
                /\ history' = [history EXCEPT ![t].pruned = TRUE]
                /\ main' = [main EXCEPT !.list = Tail(@)]
                /\ UNCHANGED engineVars
           ELSE IF ok
           THEN /\ uuids < MaxJobs
                /\ uuids' = uuids + 1
                /\ engine' = engine \cup
                        {IF tasks[t].trigger_type = "one_shot"
                         THEN OneShotJob(uuids + 1, t, r.delay)
                         ELSE CronJob(uuids + 1, t)}
                /\ main' = [main EXCEPT !.uuid = uuids + 1]
                /\ UNCHANGED <<tasks, history>>
           ELSE /\ main' = [main EXCEPT !.list = AfterRefusal(@)]
                /\ main' # main
                /\ UNCHANGED <<tasks, engineVars, history>>
    /\ UNCHANGED <<now, job_rx, runner, sched,
                   mcpVars, agentVars, memoryVars>>

\* task_store.update_scheduler_job_id for the restored task.
RestorePersist ==
    /\ main.pc = "restore" /\ main.uuid # 0
    /\ tasks' = UpdateSchedulerJobId(tasks, Head(main.list), main.uuid)
    /\ main' = [main EXCEPT !.list = Tail(@), !.uuid = 0]
    /\ UNCHANGED <<now, engine, uuids, job_rx, runner, sched, history,
                   mcpVars, agentVars, memoryVars>>

\* The restore loop is over: main goes on to run the transport.
RestoreDone ==
    /\ main.pc = "restore" /\ main.list = <<>>
    /\ main' = [main EXCEPT !.pc = "serving"]
    /\ UNCHANGED <<now, tasks, engine, uuids, job_rx, runner, sched, history,
                   mcpVars, agentVars, memoryVars>>

\* The engine runs a one-shot job whose delay has elapsed: the wrapper takes
\* the closure out of task_opt, if it is still there, and the closure sends
\* the request.  The engine may run the job's callback (an FnMut) again.
FireOneShot(job) ==
    /\ job \in engine /\ job.one_shot
    /\ now >= job.due
    /\ job.task_opt
    /\ Len(job_rx) < MaxQueue
    /\ job_rx' = Append(job_rx, Request(job.task))
    /\ engine' = (engine \ {job}) \cup {Take(job)}
    /\ UNCHANGED <<now, tasks, uuids, runner, main, sched, history,
                   mcpVars, agentVars, memoryVars>>

\* The engine runs a cron job: its closure sends the request, every time.
FireCron(job) ==
    /\ job \in engine /\ ~job.one_shot
    /\ Len(job_rx) < MaxQueue
    /\ job_rx' = Append(job_rx, Request(job.task))
    /\ UNCHANGED <<now, tasks, engine, uuids, runner, main, sched, history,
                   mcpVars, agentVars, memoryVars>>

\* job_rx.recv().await
RunnerRecv ==
    /\ runner.pc = "recv" /\ job_rx # <<>>
    /\ runner' = [pc |-> "mark", req |-> Head(job_rx), result |-> "none"]
    /\ job_rx' = Tail(job_rx)
    /\ history' = [history EXCEPT ![Head(job_rx).task_id].taken =
                        IF Head(job_rx).is_recurring THEN @ ELSE TRUE]
    /\ UNCHANGED <<now, tasks, engine, uuids, main, sched,
                   mcpVars, agentVars, memoryVars>>

\* A one-shot is set completed; then agent.process_message is entered.
RunnerMark ==
    /\ runner.pc = "mark"
    /\ LET t == runner.req.task_id IN
        /\ IF MarkBeforeRun(runner.req)
           THEN /\ tasks' = SetStatus(tasks, t, "completed")
           ELSE UNCHANGED tasks
        /\ runner' = [runner EXCEPT !.pc = "call"]
        /\ history' = [history EXCEPT ![t].processed =
                            IF runner.req.is_recurring THEN @ ELSE @ + 1]
    /\ UNCHANGED <<now, engine, uuids, job_rx, main, sched,
                   mcpVars, agentVars, memoryVars>>

\* process_message returns Ok or Err; on Err a one-shot is set failed.  (A
\* schedule_task call in progress touches another row, so letting it finish
\* first loses no outcome.)
RunnerReturn(ok) ==
    /\ runner.pc = "call"
    /\ sched.pc = "none"
    /\ IF MarkFailed(runner.req, ok)
       THEN tasks' = SetStatus(tasks, runner.req.task_id, "failed")
       ELSE UNCHANGED tasks
    /\ runner' = [NoRunner EXCEPT !.result = IF ok THEN "Ok" ELSE "Err"]
    /\ UNCHANGED <<now, engine, uuids, job_rx, main, sched, history,
                   mcpVars, agentVars, memoryVars>>

\* Time passes.
Tick ==
    /\ now < MaxTime
    /\ now' = now + 1
    /\ UNCHANGED <<tasks, engine, uuids, job_rx, runner, main, sched, history,
                   mcpVars, agentVars, memoryVars>>

\* The process dies and is started again: the table survives, the engine,
\* the channel and every task of the runtime are new.
Crash ==
    /\ main.pc # "boot"
    /\ engine' = {}
    /\ job_rx' = <<>>
    /\ runner' = NoRunner
    /\ sched' = NoSched
    /\ main' = [pc |-> "boot", list |-> <<>>, uuid |-> 0]
    /\ UNCHANGED <<now, tasks, uuids, history,
                   mcpVars, agentVars, memoryVars>>

\* The table at the first start: empty, or holding an active one-shot row
\* whose trigger_value is no timestamp.
InitSched ==
    /\ now = 0
    /\ tasks \in {[t \in TaskIds |-> NoTask],
                  [t \in TaskIds |-> IF t = 1
                        THEN [status |-> "active", scheduler_job_id |-> 0,
                              trigger_type |-> "one_shot", trigger_value |-> Text]
                        ELSE NoTask]}
    /\ engine = {}
    /\ uuids = 0
    /\ job_rx = <<>>
    /\ runner = NoRunner
    /\ main = [pc |-> "boot", list |-> <<>>, uuid |-> 0]
    /\ sched = NoSched
    /\ history = [t \in TaskIds |-> NoHistory]

\* What the LLM may pass to schedule_task.
TriggerTypes == {"one_shot", "recurring", "weekly"}

TriggerValues == {Instant(n) : n \in 0..MaxTime} \cup {Text, Cron(5), Cron(6)}

NextSched ==
    \/ \E by \in Actors, tt \in TriggerTypes, tv \in TriggerValues :
            ScheduleTaskRejected(by, tt, tv)
    \/ \E by \in Actors, tt \in TriggerTypes, tv \in TriggerValues :
            ScheduleTaskCreate(by, tt, tv)
    \/ \E ok \in BOOLEAN : ScheduleTaskRegister(ok)
    \/ ScheduleTaskPersist
    \/ ScheduleTaskReturn
    \/ \E by \in Actors, t \in TaskIds : CancelScheduledTask(by, t)
    \/ RestoreList
    \/ \E ok \in BOOLEAN : RestoreTask(ok)
    \/ RestorePersist
    \/ RestoreDone
    \/ \E job \in engine : FireOneShot(job)
    \/ \E job \in engine : FireCron(job)
    \/ RunnerRecv
    \/ RunnerMark
    \/ \E ok \in BOOLEAN : RunnerReturn(ok)
    \/ Tick
    \/ Crash

\* Time passes, as long as a trigger can name a later instant or a one-shot
\* job waits for its instant.
Elapse ==
    /\ \/ now < MaxTime
       \/ \E job \in engine : job.one_shot /\ job.task_opt /\ now < job.due
    /\ now' = now + 1
    /\ UNCHANGED <<tasks, engine, uuids, job_rx, runner, main, sched, history,
                   mcpVars, agentVars, memoryVars>>

\* One life of the process: the same steps without the crash, and without
\* the schedule_task calls that are rejected (they change nothing).
NextLife ==
    \/ \E by \in Actors, tt \in TriggerTypes, tv \in TriggerValues :
            ScheduleTaskCreate(by, tt, tv)
    \/ \E ok \in BOOLEAN : ScheduleTaskRegister(ok)
    \/ ScheduleTaskPersist
    \/ ScheduleTaskReturn
    \/ \E by \in Actors, t \in TaskIds : CancelScheduledTask(by, t)
    \/ RestoreList
    \/ \E ok \in BOOLEAN : RestoreTask(ok)
    \/ RestorePersist
    \/ RestoreDone
    \/ \E job \in engine : FireOneShot(job)
    \/ \E job \in engine : FireCron(job)
    \/ RunnerRecv
    \/ RunnerMark
    \/ \E ok \in BOOLEAN : RunnerReturn(ok)
    \/ Elapse

\* One life of the process with every schedule_task call, also the ones
\* that are rejected.
NextPersist ==
    \/ NextLife
    \/ \E by \in Actors, tt \in TriggerTypes, tv \in TriggerValues :
            ScheduleTaskRejected(by, tt, tv)
    \/ \E by \in Actors, argument \in Arguments : ScheduleTaskMissing(by, argument)

\* The table a process life starts with: empty, or holding an active
\* one-shot row of an earlier life whose instant is still to come.
InitLife ==
    /\ now = 0
    /\ tasks \in {[t \in TaskIds |-> NoTask],
                  [t \in TaskIds |-> IF t = 1
                        THEN [status |-> "active", scheduler_job_id |-> 0,
                              trigger_type |-> "one_shot",
                              trigger_value |-> Instant(MaxTime)]
                        ELSE NoTask]}
    /\ engine = {}
    /\ uuids = 0
    /\ job_rx = <<>>
    /\ runner = NoRunner
    /\ main = [pc |-> "boot", list |-> <<>>, uuid |-> 0]
    /\ sched = NoSched
    /\ history = [t \in TaskIds |-> NoHistory]

\* Time passes; the engine runs a one-shot job that is due (the channel of
\* the program is unbounded, so a send never waits: strong fairness over
\* the bounded channel of the model); the runner task and the tool call in
\* progress are scheduled; every agent call returns (it makes a bounded
\* number of tool calls: strong fairness over the tool calls in between).
FairLife ==
    /\ WF_vars(Elapse)
    /\ SF_vars(\E job \in engine : FireOneShot(job))
    /\ WF_vars(RunnerRecv)
    /\ WF_vars(RunnerMark)
    /\ SF_vars(\E ok \in BOOLEAN : RunnerReturn(ok))
    /\ WF_vars(\E ok \in BOOLEAN : ScheduleTaskRegister(ok))
    /\ WF_vars(ScheduleTaskPersist)
    /\ WF_vars(ScheduleTaskReturn)

\* Number of rows in the table a restart finds.
MaxRestored == 2

\* The rows a restart can find: none, an active one-shot whose time is still
\* ahead or has passed while the process was down, an active recurring task,
\* a task that is over.
RestoredRows ==
    {NoTask,
     [status |-> "active", scheduler_job_id |-> 0,
      trigger_type |-> "one_shot", trigger_value |-> Instant(MaxTime)],
     [status |-> "active", scheduler_job_id |-> 0,
      trigger_type |-> "one_shot", trigger_value |-> Instant(0)],
     [status |-> "active", scheduler_job_id |-> 0,
      trigger_type |-> "recurring", trigger_value |-> Cron(6)],
     [status |-> "completed", scheduler_job_id |-> 0,
      trigger_type |-> "one_shot", trigger_value |-> Instant(0)]}

InitRestore ==
    /\ now = 0
    /\ tasks \in [1..MaxRestored -> RestoredRows]
    /\ engine = {}
    /\ uuids = 0
    /\ job_rx = <<>>
    /\ runner = NoRunner
    /\ main = [pc |-> "boot", list |-> <<>>, uuid |-> 0]
    /\ sched = NoSched
    /\ history = [t \in 1..MaxRestored |-> NoHistory]

\* The startup restore alone: main awaits restore_scheduled_tasks before it
\* runs the transport, so no user turn runs beside it.
NextRestore ==
    \/ RestoreList
    \/ \E ok \in BOOLEAN : RestoreTask(ok)
    \/ RestorePersist
    \/ RestoreDone

\* restore_scheduled_tasks is one sequential loop: each of its steps is taken.
FairRestore ==
    /\ WF_vars(RestoreList)
    /\ WF_vars(\E ok \in BOOLEAN : RestoreTask(ok))
    /\ WF_vars(RestorePersist)
    /\ WF_vars(RestoreDone)

(***************************************************************************)
(*    MEMORY STORE: CONVERSATIONS, MESSAGES, MESSAGE EMBEDDINGS            *)
(*    (src/memory/conversations.rs, src/memory/mod.rs)                     *)
(*    Every operation holds the connection mutex for all its statements,   *)
(*    so each is one step; the embedding of a saved message is computed    *)
(*    and stored by a background task after save_message has returned.     *)
(***************************************************************************)

\* Number of save_message calls.
MaxSaves == 5

\* Number of conversation ids (uuids) handed out.
MaxConvs == 2

\* The (platform, user_id) pairs that talk to the bot.
Users == {"u1", "u2"}

\* What process_message saves: the system prompt, a user message, an
\* assistant message with tool calls (no content), a tool result, a final
\* assistant message.
Kinds == {"system", "user", "calls", "tool", "final"}

Role(kind) == IF kind \in {"calls", "final"} THEN "assistant" ELSE kind

HasContent(kind) == kind # "calls"

\* The kinds process_message can save next in a conversation whose last
\* saved message has the given kind ("none": no message yet).
NextKinds(last) ==
    CASE last = "none" -> {"system"}
      [] last = "system" -> {"user"}
      [] last = "user" -> {"calls", "final", "user"}
      [] last = "calls" -> {"tool"}
      [] last = "tool" -> {"tool", "calls", "final", "user"}
      [] last = "final" -> {"user"}

\* EmbeddingEngine::is_available: an embedding provider is configured.
IsAvailable == available

\* save_message: should_embed.
ShouldEmbed(kind) == IsAvailable /\ HasContent(kind) /\ Role(kind) # "tool"

\* SQLite gives a row of a table without AUTOINCREMENT the rowid that is one
\* more than the largest rowid in the table (1 in an empty table).
NextRowid(rows) ==
    IF rows = {} THEN 1
    ELSE (CHOOSE r \in rows : \A q \in rows : q.rowid <= r.rowid).rowid + 1

\* get_or_create_conversation: SELECT id ... ORDER BY updated_at DESC LIMIT 1
\* (0: no row).
FindConversationNone(rows, u) == 0

FindConversation(rows, u) ==
    LET mine == {c \in rows : c.user = u}
    IN  IF mine = {} THEN 0
        ELSE (CHOOSE c \in mine : \A d \in mine : d.updated_at <= c.updated_at).id

\* load_messages: ORDER BY created_at ASC; the index on (conversation_id,
\* created_at) yields rows of one second in rowid order.
RowBeforeNewest(a, b) ==
    \/ a.created_at < b.created_at
    \/ a.created_at = b.created_at /\ a.rowid > b.rowid

RowBefore(a, b) ==
    \/ a.created_at < b.created_at
    \/ a.created_at = b.created_at /\ a.rowid < b.rowid

RECURSIVE Ordered(_)
Ordered(rows) ==
    IF rows = {} THEN <<>>
    ELSE LET first == CHOOSE r \in rows : \A q \in rows \ {r} : RowBefore(r, q)
         IN  <<first>> \o Ordered(rows \ {first})

LoadMessagesOf(c) == Ordered({m \in messages : m.conv = c})

\* The kind of the last message saved to conversation c.
LastKind(c) ==
    LET mine == {m \in messages : m.conv = c}
    IN  IF mine = {} THEN "none"
        ELSE (CHOOSE m \in mine : \A q \in mine : q.seq <= m.seq).kind

NoSince == [cleared |-> FALSE, ids |-> {}]

\* get_or_create_conversation(platform, user_id)
GetOrCreateConversation(u) ==
    /\ LET existing == FindConversation(convs, u) IN
        IF existing # 0
        THEN /\ since' = [since EXCEPT ![u] = [cleared |-> FALSE, ids |-> @.ids \cup {existing}]]
             /\ UNCHANGED <<convs, convIds>>
        ELSE /\ convIds < MaxConvs
             /\ convIds' = convIds + 1
             /\ convs' = convs \cup {[id |-> convIds + 1, user |-> u, updated_at |-> now]}
             /\ since' = [since EXCEPT ![u] = [cleared |-> FALSE, ids |-> @.ids \cup {convIds + 1}]]
    /\ UNCHANGED <<available, messages, embeds, embedTasks, saved, removed,
                   mcpVars, agentVars, schedVars, restVars>>

\* save_message(conversation_id, message) by a turn that got the id from
\* get_or_create_conversation: the row is inserted (the foreign key needs the
\* conversation row), the conversation's updated_at is set, and the
\* background embedding task is spawned.
SaveMessage(c, kind) ==
    /\ Len(saved) < MaxSaves
    /\ \E row \in convs :
        /\ row.id = c
        /\ kind \in NextKinds(LastKind(c))
        /\ LET rowid == NextRowid(messages)
               seq == Len(saved) + 1
           IN  /\ messages' = messages \cup {[rowid |-> rowid, conv |-> c, role |-> Role(kind),
                                      kind |-> kind, created_at |-> now, seq |-> seq]}
               /\ embedTasks' = IF ShouldEmbed(kind)
                                THEN embedTasks \cup {[rowid |-> rowid, seq |-> seq]}
                                ELSE embedTasks
        /\ convs' = (convs \ {row}) \cup {[row EXCEPT !.updated_at = now]}
        /\ saved' = Append(saved, [conv |-> c, user |-> row.user])
        /\ since' = [since EXCEPT ![row.user].cleared = FALSE]
    /\ UNCHANGED <<available, embeds, convIds, removed, mcpVars, agentVars, schedVars, restVars>>

\* The background task of save_message: try_embed_one, then INSERT INTO
\* message_embeddings (rowid, embedding); the result of the insert is dropped
\* (vec0 refuses a rowid it already holds).
EmbedFinish(seq, ok) ==
    /\ \E t \in embedTasks :
        /\ t.seq = seq
        /\ embedTasks' = embedTasks \ {t}
        /\ embeds' = IF ok /\ \A e \in embeds : e.rowid # t.rowid
                     THEN embeds \cup {t} ELSE embeds
    /\ UNCHANGED <<available, convs, messages, convIds, saved, since, removed,
                   mcpVars, agentVars, schedVars, restVars>>

\* clear_conversation(platform, user_id): delete the embeddings keyed by the
\* rowids of the user's messages, the messages, the conversation rows.
ClearConversation(u) ==
    /\ LET ids == {c.id : c \in {d \in convs : d.user = u}}
           mine == {m \in messages : m.conv \in ids}
       IN  /\ embeds' = {e \in embeds : e.rowid \notin {m.rowid : m \in mine}}
           /\ messages' = messages \ mine
           /\ convs' = {c \in convs : c.user # u}
           /\ removed' = removed \cup {m.seq : m \in mine}
    /\ since' = [since EXCEPT ![u] = [cleared |-> TRUE, ids |-> {}]]
    /\ since' # since \/ convs' # convs
    /\ UNCHANGED <<available, embedTasks, convIds, saved, mcpVars, agentVars, schedVars, restVars>>

InitStore ==
    /\ convs = {}
    /\ messages = {}
    /\ embeds = {}
    /\ embedTasks = {}
    /\ convIds = 0
    /\ saved = <<>>
    /\ since = [u \in Users |-> NoSince]
    /\ removed = {}

\* The embedding section of the configuration is optional (config.rs).
NoEmbedding == available = FALSE

WithEmbedding == available = TRUE

\* The store with no embedding provider: save_message spawns no background
\* task.
NextStore ==
    \/ \E u \in Users : GetOrCreateConversation(u)
    \/ \E c \in 1..MaxConvs, kind \in Kinds : SaveMessage(c, kind)
    \/ \E u \in Users : ClearConversation(u)
    \/ Tick

\* The store with an embedding provider, while the clock of datetime('now')
\* stays within one second.
NextEmbed ==
    \/ \E u \in Users : GetOrCreateConversation(u)
    \/ \E c \in 1..MaxConvs, kind \in Kinds : SaveMessage(c, kind)
    \/ \E seq \in 1..MaxSaves, ok \in BOOLEAN : EmbedFinish(seq, ok)
    \/ \E u \in Users : ClearConversation(u)

(***************************************************************************)
(*    MEMORY STORE: KNOWLEDGE (src/memory/knowledge.rs)                    *)
(*    remember computes the embedding before it takes the connection       *)
(*    mutex and runs all its statements under one hold of the mutex.       *)
(***************************************************************************)

\* Number of remember and forget calls.
MaxRemembers == 4

\* The (category, key) pairs and the values of the calls.
Keys == {"k1", "k2"}

Values == {"v1", "v2"}

NoRemember == [pc |-> "idle", key |-> "none", value |-> "none", embedding |-> FALSE]

\* SELECT rowid FROM knowledge WHERE category = ? AND key = ? (0: no row).
RowidOf(tbl, k) ==
    IF \E r \in tbl : r.key = k THEN (CHOOSE r \in tbl : r.key = k).rowid ELSE 0

\* DELETE FROM knowledge_embeddings WHERE rowid = ?
DeleteEmbedding(tbl, rowid) == {e \in tbl : e.rowid # rowid}

\* INSERT INTO knowledge_embeddings (rowid, embedding): vec0 refuses a rowid
\* it already holds, and the table stays as it was.
InsertEmbedding(tbl, rowid, text) ==
    IF \E e \in tbl : e.rowid = rowid THEN tbl
    ELSE tbl \cup {[rowid |-> rowid, text |-> text]}

\* INSERT INTO knowledge ... ON CONFLICT(category, key) DO UPDATE SET value:
\* the row of the key keeps its rowid, a new row gets the next one.
UpsertAppend(tbl, k, v) == tbl \cup {[rowid |-> NextRowid(tbl), key |-> k, value |-> v]}

Upsert(tbl, k, v) ==
    IF \E r \in tbl : r.key = k
    THEN {IF r.key = k THEN [r EXCEPT !.value = v] ELSE r : r \in tbl}
    ELSE tbl \cup {[rowid |-> NextRowid(tbl), key |-> k, value |-> v]}

\* recall: SELECT value FROM knowledge WHERE category = ? AND key = ?
\* ("none": no row; query_row takes the first row).
Recall(k) ==
    IF \E r \in knowledge : r.key = k
    THEN (CHOOSE r \in knowledge : r.key = k /\ \A q \in knowledge :
                q.key = k => r.rowid <= q.rowid).value
    ELSE "none"

\* The calls of remember that have started.
Remembering == {a \in Callers : remember[a].pc # "idle"}

\* remember, up to the lock: the embedding of "key: value" is asked for
\* (try_embed_one gives None when the provider fails).
RememberEmbed(a, k, v, ok) ==
    /\ remember[a].pc = "idle"
    /\ Len(klog) + Cardinality(Remembering) < MaxRemembers
    /\ remember' = [remember EXCEPT ![a] =
            [pc |-> "lock", key |-> k, value |-> v, embedding |-> IsAvailable /\ ok]]
    /\ UNCHANGED <<knowledge, kembeds, klog, mcpVars, agentVars, schedVars, storeVars, schemaVars, boxVars, pureVars, skillVars, lateVars>>

\* remember, under the lock: the old embedding row goes, the row is
\* upserted, the new embedding row is inserted if there is an embedding.
RememberStore(a) ==
    /\ remember[a].pc = "lock"
    /\ LET k == remember[a].key
           v == remember[a].value
           old_rowid == RowidOf(knowledge, k)
           cleaned == IF old_rowid # 0 THEN DeleteEmbedding(kembeds, old_rowid) ELSE kembeds
           stored == Upsert(knowledge, k, v)
           rowid == RowidOf(stored, k)
       IN  /\ knowledge' = stored
           /\ kembeds' = IF remember[a].embedding
                         THEN InsertEmbedding(cleaned, rowid, <<k, v>>)
                         ELSE cleaned
           /\ klog' = Append(klog, [key |-> k, value |-> v])
    /\ remember' = [remember EXCEPT ![a] = NoRemember]
    /\ UNCHANGED <<mcpVars, agentVars, schedVars, storeVars, schemaVars, boxVars, pureVars, skillVars, lateVars>>

\* forget(category, key), on an entry that exists.
Forget(k) ==
    /\ Len(klog) + Cardinality(Remembering) < MaxRemembers
    /\ RowidOf(knowledge, k) # 0
    /\ kembeds' = DeleteEmbedding(kembeds, RowidOf(knowledge, k))
    /\ knowledge' = {r \in knowledge : r.key # k}
    /\ klog' = Append(klog, [key |-> k, value |-> "none"])
    /\ UNCHANGED <<remember, mcpVars, agentVars, schedVars, storeVars, schemaVars, boxVars, pureVars, skillVars, lateVars>>

InitKnow ==
    /\ knowledge = {}
    /\ kembeds = {}
    /\ remember = [a \in Callers |-> NoRemember]
    /\ klog = <<>>


NextKnow ==
    \/ \E a \in Callers, k \in Keys, v \in Values, ok \in BOOLEAN : RememberEmbed(a, k, v, ok)
    \/ \E a \in Callers : RememberStore(a)
    \/ \E k \in Keys : Forget(k)


(***************************************************************************)
(*    MEMORY STORE: THE VECTOR TABLES AND THEIR DIMENSION                  *)
(*    (src/memory/mod.rs, run_migrations)                                  *)
(*    The statements of run_migrations run one by one, each committed on   *)
(*    its own; the process can end between any two of them (a statement    *)
(*    that fails ends the start-up, the process can be killed).            *)
(***************************************************************************)

\* The embedding dimensions a configuration can ask for.
Dims == {384, 768}

Tables == {"message_embeddings", "knowledge_embeddings"}

\* A vec0 table that does not exist.
NoTable == [exists |-> FALSE, dims |-> 0, rows |-> FALSE]

\* CREATE VIRTUAL TABLE t USING vec0(embedding float[dims])
NewTable(dims) == [exists |-> TRUE, dims |-> dims, rows |-> FALSE]

NoOpening == [pc |-> "closed", dims |-> 0, stored_dims |-> 0, before |-> <<>>]

\* need_migrate = !matches!(stored_dims, Some(s) if s == dims); a missing
\* embedding_dims row reads as 0.
NeedMigrate(stored_dims, dims) == stored_dims # dims

\* MemoryStore::open up to the decision of run_migrations: the base tables
\* are created if absent and the stored dimension is read.
Open(dims) ==
    /\ opening.pc = "closed"
    /\ opening' = [pc |-> IF NeedMigrate(schema.embedding_dims, dims)
                          THEN "drop_message_embeddings"
                          ELSE "ensure_message_embeddings",
                   dims |-> dims,
                   stored_dims |-> schema.embedding_dims,
                   before |-> schema]
    /\ UNCHANGED <<schema, mcpVars, agentVars, schedVars, storeVars, knowVars, boxVars, pureVars, skillVars, lateVars>>

\* need_migrate: DROP TABLE message_embeddings, if it exists.
DropMessageEmbeddings ==
    /\ opening.pc = "drop_message_embeddings"
    /\ schema' = [schema EXCEPT !.message_embeddings = NoTable]
    /\ opening' = [opening EXCEPT !.pc = "drop_knowledge_embeddings"]
    /\ UNCHANGED <<mcpVars, agentVars, schedVars, storeVars, knowVars, boxVars, pureVars, skillVars, lateVars>>

\* need_migrate: DROP TABLE knowledge_embeddings, if it exists.
DropKnowledgeEmbeddings ==
    /\ opening.pc = "drop_knowledge_embeddings"
    /\ schema' = [schema EXCEPT !.knowledge_embeddings = NoTable]
    /\ opening' = [opening EXCEPT !.pc = "create_message_embeddings"]
    /\ UNCHANGED <<mcpVars, agentVars, schedVars, storeVars, knowVars, boxVars, pureVars, skillVars, lateVars>>

\* need_migrate: CREATE VIRTUAL TABLE message_embeddings at dims.
CreateMessageEmbeddings ==
    /\ opening.pc = "create_message_embeddings"
    /\ schema' = [schema EXCEPT !.message_embeddings = NewTable(opening.dims)]
    /\ opening' = [opening EXCEPT !.pc = "create_knowledge_embeddings"]
    /\ UNCHANGED <<mcpVars, agentVars, schedVars, storeVars, knowVars, boxVars, pureVars, skillVars, lateVars>>

\* need_migrate: CREATE VIRTUAL TABLE knowledge_embeddings at dims.
CreateKnowledgeEmbeddings ==
    /\ opening.pc = "create_knowledge_embeddings"
    /\ schema' = [schema EXCEPT !.knowledge_embeddings = NewTable(opening.dims)]
    /\ opening' = [opening EXCEPT !.pc = "record"]
    /\ UNCHANGED <<mcpVars, agentVars, schedVars, storeVars, knowVars, boxVars, pureVars, skillVars, lateVars>>

\* need_migrate: INSERT OR REPLACE INTO schema_meta ('embedding_dims', dims);
\* run_migrations and open return.
RecordDims ==
    /\ opening.pc = "record"
    /\ schema' = [schema EXCEPT !.embedding_dims = opening.dims]
    /\ opening' = [opening EXCEPT !.pc = "opened"]
    /\ UNCHANGED <<mcpVars, agentVars, schedVars, storeVars, knowVars, boxVars, pureVars, skillVars, lateVars>>

\* Same dimension: message_embeddings is created, and the dimension
\* recorded, only if the table does not exist.
EnsureMessageEmbeddings ==
    /\ opening.pc = "ensure_message_embeddings"
    /\ schema' = IF schema.message_embeddings.exists THEN schema
                 ELSE [schema EXCEPT !.message_embeddings = NewTable(opening.dims),
                                     !.embedding_dims = opening.dims]
    /\ opening' = [opening EXCEPT !.pc = "ensure_knowledge_embeddings"]
    /\ UNCHANGED <<mcpVars, agentVars, schedVars, storeVars, knowVars, boxVars, pureVars, skillVars, lateVars>>

\* Same dimension: knowledge_embeddings is created only if it does not
\* exist (the dimension is recorded if none was stored); run_migrations and
\* open return.
EnsureKnowledgeEmbeddings ==
    /\ opening.pc = "ensure_knowledge_embeddings"
    /\ schema' = IF schema.knowledge_embeddings.exists THEN schema
                 ELSE [schema EXCEPT !.knowledge_embeddings = NewTable(opening.dims),
                                     !.embedding_dims =
                                        IF opening.stored_dims = 0 THEN opening.dims ELSE @]
    /\ opening' = [opening EXCEPT !.pc = "opened"]
    /\ UNCHANGED <<mcpVars, agentVars, schedVars, storeVars, knowVars, boxVars, pureVars, skillVars, lateVars>>

\* The open store inserts an embedding row into table t: vec0 takes a
\* vector of the table's dimension only, and the embedder produces vectors
\* of the configured dimension.
InsertEmbeddingRow(t) ==
    /\ opening.pc \in {"opened", "serving"}
    /\ schema[t].exists /\ schema[t].dims = opening.dims
    /\ schema' = [schema EXCEPT ![t].rows = TRUE]
    /\ opening' = [opening EXCEPT !.pc = "serving"]
    /\ <<schema', opening'>> # <<schema, opening>>
    /\ UNCHANGED <<mcpVars, agentVars, schedVars, storeVars, knowVars, boxVars, pureVars, skillVars, lateVars>>

\* The process ends: at its exit, by a kill, or because a statement of the
\* open failed.
Exit ==
    /\ opening.pc # "closed"
    /\ opening' = NoOpening
    /\ UNCHANGED <<schema, mcpVars, agentVars, schedVars, storeVars, knowVars, boxVars, pureVars, skillVars, lateVars>>

\* A database file that does not exist yet.
InitSchema ==
    /\ schema = [embedding_dims |-> 0, message_embeddings |-> NoTable,
                 knowledge_embeddings |-> NoTable]
    /\ opening = NoOpening


NextSchema ==
    \/ \E dims \in Dims : Open(dims)
    \/ DropMessageEmbeddings
    \/ DropKnowledgeEmbeddings
    \/ CreateMessageEmbeddings
    \/ CreateKnowledgeEmbeddings
    \/ RecordDims
    \/ EnsureMessageEmbeddings
    \/ EnsureKnowledgeEmbeddings
    \/ \E t \in Tables : InsertEmbeddingRow(t)
    \/ Exit


(***************************************************************************)
(*    BUILT-IN FILE TOOLS (src/tools.rs)                                   *)
(*    A path is the sequence of its components below the root directory.   *)
(*    canonicalize, exists and the opens of read, write and read_dir       *)
(*    resolve a path as the operating system does: component by            *)
(*    component, following symbolic links; parent, file_name, join and     *)
(*    starts_with work on the components alone.                            *)
(***************************************************************************)

\* Number of symbolic links one resolution follows.
MaxLinks == 2

\* sandbox_dir (config.sandbox.allowed_directory), here already canonical.
Sandbox == <<"box">>

NoNode == [path |-> <<>>, type |-> "none", target |-> <<>>]

Dir(path) == [path |-> path, type |-> "dir", target |-> <<>>]

File(path) == [path |-> path, type |-> "file", target |-> <<>>]

Link(path, target) == [path |-> path, type |-> "link", target |-> target]

\* The node at a canonical path (the root is a directory).
Node(fsys, path) ==
    IF path = <<>> THEN Dir(<<>>)
    ELSE IF \E n \in fsys : n.path = path THEN CHOOSE n \in fsys : n.path = path
    ELSE NoNode

\* Path::parent and Path::file_name.
Parent(path) == SubSeq(path, 1, Len(path) - 1)

FileName(path) == path[Len(path)]

\* Path::join of a relative path; components() drops "." components.
Join(base, parts) == base \o SelectSeq(parts, LAMBDA c : c # ".")

\* Path::starts_with: whole components.
StartsWith(path, base) ==
    Len(base) <= Len(path) /\ SubSeq(path, 1, Len(base)) = base

\* Path resolution from directory cur: "found" with the canonical path of
\* the object, "missing" with the canonical path where the last component
\* would be created, or "error".
RECURSIVE Walk(_, _, _, _)
Walk(fsys, cur, rest, links) ==
    IF rest = <<>> THEN [status |-> "found", path |-> cur]
    ELSE LET c == Head(rest)
             r == Tail(rest)
             n == Node(fsys, Append(cur, c))
         IN  IF c = "." THEN Walk(fsys, cur, r, links)
             ELSE IF c = ".." THEN Walk(fsys, Parent(cur), r, links)
             ELSE IF n.type = "dir" THEN Walk(fsys, n.path, r, links)
             ELSE IF n.type = "file"
                  THEN IF r = <<>> THEN [status |-> "found", path |-> n.path]
                       ELSE [status |-> "error", path |-> <<>>]
             ELSE IF n.type = "link"
                  THEN IF links = 0 THEN [status |-> "error", path |-> <<>>]
                       ELSE Walk(fsys, <<>>, n.target \o r, links - 1)
             ELSE IF r = <<>> THEN [status |-> "missing", path |-> Append(cur, c)]
             ELSE [status |-> "error", path |-> <<>>]

Resolve(fsys, path) == Walk(fsys, <<>>, path, MaxLinks)

\* Path::exists: the metadata of the path, links followed, can be read.
Exists(fsys, path) == Resolve(fsys, path).status = "found"

\* Path::canonicalize: the path must exist.
Canonicalize(fsys, path) ==
    IF Exists(fsys, path) THEN [ok |-> TRUE, path |-> Resolve(fsys, path).path]
    ELSE [ok |-> FALSE, path |-> <<>>]

\* The path the tool is asked for: absolute, or relative to the sandbox.
RequestedPath(request) ==
    IF request.absolute THEN request.parts ELSE Join(Sandbox, request.parts)

\* validate_sandbox_path: the path to use, or the error.
ValidateSandboxPath(fsys, request) ==
    LET requested_path == RequestedPath(request)
        parent == Canonicalize(fsys, Parent(requested_path))
        check ==
            IF Exists(fsys, requested_path)
            THEN Canonicalize(fsys, requested_path)
            ELSE IF requested_path = <<>> THEN [ok |-> FALSE, path |-> <<>>]
            ELSE IF ~parent.ok THEN [ok |-> FALSE, path |-> <<>>]
            ELSE IF FileName(requested_path) = ".." THEN [ok |-> FALSE, path |-> <<>>]
            ELSE [ok |-> TRUE, path |-> Append(parent.path, FileName(requested_path))]
    IN  IF ~check.ok THEN [result |-> "Error", path |-> <<>>]
        ELSE IF ~StartsWith(check.path, Sandbox)
        THEN [result |-> "Access denied", path |-> <<>>]
        ELSE [result |-> "Ok", path |-> check.path]

\* The paths the calls ask for.
Requests ==
    {[absolute |-> FALSE, parts |-> p] :
        p \in {<<"a">>, <<"l">>, <<"new">>, <<".">>, <<"..">>, <<"l", "x">>,
               <<"sub", "x">>, <<"..", "out", "secret">>, <<"..", "out", "new">>}}
    \cup {[absolute |-> TRUE, parts |-> p] : p \in {<<"box", "a">>, <<"out", "secret">>}}

\* What a symbolic link in the sandbox can point to: a file or a directory
\* outside, a file inside, a path outside or inside that does not exist.
Targets == {<<"out", "secret">>, <<"out">>, <<"box", "a">>, <<"out", "new">>, <<"box", "new">>}

NoBox == [pc |-> "idle", tool |-> "none", request |-> <<>>, result |-> "none", before |-> {}]

\* execute_builtin_tool, read_file: validate, then read_to_string.
ReadFile(request) ==
    /\ box.pc = "idle"
    /\ LET v == ValidateSandboxPath(files, request)
           w == Resolve(files, v.path)
           ok == v.result = "Ok" /\ w.status = "found" /\ Node(files, w.path).type = "file"
       IN  /\ touched' = IF ok THEN {w.path} ELSE {}
           /\ box' = [pc |-> "done", tool |-> "read_file", request |-> request,
                      result |-> IF v.result = "Ok" /\ ~ok THEN "Error" ELSE v.result,
                      before |-> files]
    /\ UNCHANGED <<files, mcpVars, agentVars, schedVars, storeVars, knowVars, schemaVars, pureVars, skillVars, lateVars>>

\* execute_builtin_tool, write_file: validate, create_dir_all(parent), then
\* fs::write, which opens the path for writing and creates the file if the
\* path resolves to none.
WriteFile(request) ==
    /\ box.pc = "idle"
    /\ LET v == ValidateSandboxPath(files, request)
           w == Resolve(files, v.path)
           parent == Resolve(files, Parent(v.path))
           dirs == v.result = "Ok" /\ parent.status = "found"
                        /\ Node(files, parent.path).type = "dir"
           writes == dirs /\ w.status = "found" /\ Node(files, w.path).type = "file"
           creates == dirs /\ w.status = "missing"
       IN  /\ touched' = IF writes \/ creates THEN {w.path} ELSE {}
           /\ files' = IF creates THEN files \cup {File(w.path)} ELSE files
           /\ box' = [pc |-> "done", tool |-> "write_file", request |-> request,
                      result |-> IF v.result = "Ok" /\ ~(writes \/ creates)
                                 THEN "Error" ELSE v.result,
                      before |-> files]
    /\ UNCHANGED <<mcpVars, agentVars, schedVars, storeVars, knowVars, schemaVars, pureVars, skillVars, lateVars>>

\* execute_builtin_tool, list_files: validate, then read_dir.
ListFiles(request) ==
    /\ box.pc = "idle"
    /\ LET v == ValidateSandboxPath(files, request)
           w == Resolve(files, v.path)
           ok == v.result = "Ok" /\ w.status = "found" /\ Node(files, w.path).type = "dir"
       IN  /\ touched' = IF ok THEN {w.path} ELSE {}
           /\ box' = [pc |-> "done", tool |-> "list_files", request |-> request,
                      result |-> IF v.result = "Ok" /\ ~ok THEN "Error" ELSE v.result,
                      before |-> files]
    /\ UNCHANGED <<files, mcpVars, agentVars, schedVars, storeVars, knowVars, schemaVars, pureVars, skillVars, lateVars>>

\* The result goes back to the agent loop; the next call can start.
ToolReturn ==
    /\ box.pc = "done"
    /\ box' = NoBox
    /\ touched' = {}
    /\ UNCHANGED <<files, mcpVars, agentVars, schedVars, storeVars, knowVars, schemaVars, pureVars, skillVars, lateVars>>

\* The sandbox /box with a file, a directory /out outside it with a file,
\* and no symbolic link.
InitFiles ==
    {Dir(<<"box">>), File(<<"box", "a">>), Dir(<<"out">>), File(<<"out", "secret">>)}

IdleBox ==
    /\ files = InitFiles
    /\ box = NoBox
    /\ touched = {}

\* The same with a symbolic link /box/l.
InitBox ==
    /\ \E target \in Targets : files = InitFiles \cup {Link(<<"box", "l">>, target)}
    /\ box = NoBox
    /\ touched = {}


NextBox ==
    \/ \E request \in Requests : ReadFile(request)
    \/ \E request \in Requests : WriteFile(request)
    \/ \E request \in Requests : ListFiles(request)
    \/ ToolReturn


(***************************************************************************)
(*    EXTERNAL TOOL NAMES (src/mcp.rs, tool_definitions and call_tool)     *)
(*    A string is the sequence of its characters.                          *)
(***************************************************************************)

NoOutcome == [result |-> "none"]

\* No call is made.
IdlePure ==
    /\ given = <<>>
    /\ outcome = NoOutcome

\* str::strip_prefix: the rest of the string behind the prefix, if it
\* starts with it.
StripPrefix(str, prefix) ==
    IF Len(prefix) <= Len(str) /\ SubSeq(str, 1, Len(prefix)) = prefix
    THEN [some |-> TRUE, rest |-> SubSeq(str, Len(prefix) + 1, Len(str))]
    ELSE [some |-> FALSE, rest |-> <<>>]

\* tool_definitions: format!("mcp_{}_{}", connection.name, tool.name)
PrefixedName(server, tool) == <<"m", "c", "p", "_">> \o server \o <<"_">> \o tool

\* Names of servers and of tools.
NameParts == {<<"a">>, <<"a", "_", "b">>, <<"b", "_", "a">>}

\* A connection: its name and the names of the tools it advertises.
Connections == {[name |-> n, tools |-> T] : n \in NameParts, T \in SUBSET NameParts}

\* McpManager.connections, a map keyed by the connection name: one or two
\* connections.
Catalogs ==
    {C \in {{c, d} : c, d \in Connections} :
        \A c, d \in C : c.name = d.name => c = d}

\* The names call_tool is asked for: every name a catalog can publish, and
\* names with the prefix mcp_ that none publishes.
PrefixedNames ==
    {PrefixedName(n, t) : n, t \in NameParts}
    \cup {<<"m", "c", "p", "_">> \o n : n \in NameParts}

\* call_tool: the connections whose name and underscore start the name
\* behind mcp_ and that advertise the rest of it as a tool.
Matching(catalog, prefixed_name) ==
    LET without_mcp == StripPrefix(prefixed_name, <<"m", "c", "p", "_">>)
    IN  {c \in catalog :
            /\ without_mcp.some
            /\ LET tool_name == StripPrefix(without_mcp.rest, c.name \o <<"_">>)
               IN  tool_name.some /\ tool_name.rest \in c.tools}

\* call_tool: the first matching connection in the iteration order of the
\* map, which is any of them, gets the call of the tool named by the rest
\* of the name; with no match the call fails.
CallTool ==
    /\ outcome = NoOutcome
    /\ "prefixed_name" \in DOMAIN given
    /\ LET found == Matching(given.connections, given.prefixed_name)
       IN  IF found = {}
           THEN outcome' = [result |-> "MCP tool not found"]
           ELSE \E c \in found :
                outcome' = [result |-> "Ok", server |-> c.name,
                            tool |-> StripPrefix(StripPrefix(given.prefixed_name,
                                        <<"m", "c", "p", "_">>).rest, c.name \o <<"_">>).rest]
    /\ UNCHANGED <<given, stateVars>>

InitNames ==
    /\ given \in [connections : Catalogs, prefixed_name : PrefixedNames]
    /\ outcome = NoOutcome

NextNames == CallTool



(***************************************************************************)
(*    SKILLS AND THE SYSTEM PROMPT (src/agent.rs, src/skills)              *)
(*    process_message up to its first LLM call, and the reload_skills      *)
(*    tool, for the two tasks that run turns of one user.                  *)
(***************************************************************************)

\* Number of process_message calls.
MaxChats == 2

\* Number of reload_skills calls that replace the registry.
MaxReloads == 1

SkillNames == {"s1", "s2"}

\* build_system_prompt: the configured prompt, and the skill context if the
\* registry is not empty (SkillRegistry::build_context).
BuildSystemPrompt(registry) ==
    IF registry = {} THEN <<"system_prompt">>
    ELSE <<"system_prompt", "# Available Skills", registry>>

NoChat ==
    [pc |-> "idle", since |-> 0, messages |-> <<>>, sent |-> <<>>,
     new_registry |-> {}, reloads |-> FALSE, result |-> "none"]

SystemRow(prompt) == [role |-> "system", content |-> prompt]

UserRow == [role |-> "user", content |-> "text"]

\* process_message: the first message with role system gets the current
\* prompt, in memory.
RefreshPromptKeep(msgs, prompt) == msgs

RefreshPrompt(msgs, prompt) ==
    IF \E i \in 1..Len(msgs) : msgs[i].role = "system"
    THEN LET i == CHOOSE i \in 1..Len(msgs) :
                    /\ msgs[i].role = "system"
                    /\ \A j \in 1..(i - 1) : msgs[j].role # "system"
         IN  [msgs EXCEPT ![i].content = prompt]
    ELSE msgs

\* reload_skills: *skills = new_registry, under the write lock.
ReplaceRegistry(old, new_registry) == new_registry

\* Number of process_message calls made so far.
Chats == Cardinality({i \in 1..Len(persisted) : persisted[i].role = "user"})
            + Cardinality({a \in Actors : chat[a].pc \in {"load", "system", "user"}})

\* A skill file appears in or goes from the skills directory
\* (write_skill_file, the user).
EditSkills(s) ==
    /\ skillsDir' = IF s \in skillsDir THEN skillsDir \ {s} ELSE skillsDir \cup {s}
    /\ UNCHANGED <<skills, installed, chat, persisted,
                   mcpVars, agentVars, schedVars, storeVars, knowVars, schemaVars,
                   boxVars, pureVars, lateVars>>

\* process_message is entered.
ChatStart(a) ==
    /\ chat[a].pc = "idle"
    /\ Chats < MaxChats
    /\ chat' = [chat EXCEPT ![a] = [NoChat EXCEPT !.pc = "load", !.since = Len(installed)]]
    /\ UNCHANGED <<skillsDir, skills, installed, persisted,
                   mcpVars, agentVars, schedVars, storeVars, knowVars, schemaVars,
                   boxVars, pureVars, lateVars>>

\* memory.load_messages
ChatLoad(a) ==
    /\ chat[a].pc = "load"
    /\ chat' = [chat EXCEPT ![a].pc = "system", ![a].messages = persisted]
    /\ UNCHANGED <<skillsDir, skills, installed, persisted,
                   mcpVars, agentVars, schedVars, storeVars, knowVars, schemaVars,
                   boxVars, pureVars, lateVars>>

\* build_system_prompt under the read lock; the system message is saved and
\* pushed for a new conversation and refreshed in memory for an existing one.
ChatSystem(a) ==
    /\ chat[a].pc = "system"
    /\ LET current_system_prompt == BuildSystemPrompt(skills)
       IN  IF chat[a].messages = <<>>
           THEN /\ persisted' = Append(persisted, SystemRow(current_system_prompt))
                /\ chat' = [chat EXCEPT ![a].pc = "user",
                                ![a].messages = <<SystemRow(current_system_prompt)>>]
           ELSE /\ chat' = [chat EXCEPT ![a].pc = "user",
                                ![a].messages = RefreshPrompt(@, current_system_prompt)]
                /\ UNCHANGED persisted
    /\ UNCHANGED <<skillsDir, skills, installed,
                   mcpVars, agentVars, schedVars, storeVars, knowVars, schemaVars,
                   boxVars, pureVars, lateVars>>

\* The user message is saved and pushed.
ChatUser(a) ==
    /\ chat[a].pc = "user"
    /\ persisted' = Append(persisted, UserRow)
    /\ chat' = [chat EXCEPT ![a].pc = "llm", ![a].messages = Append(@, UserRow)]
    /\ UNCHANGED <<skillsDir, skills, installed,
                   mcpVars, agentVars, schedVars, storeVars, knowVars, schemaVars,
                   boxVars, pureVars, lateVars>>

\* llm.chat(&messages, ...): the LLM gets the messages; it answers, or asks
\* for reload_skills.
ChatLlm(a, reload) ==
    /\ chat[a].pc = "llm"
    /\ reload => ~chat[a].reloads /\ Len(installed) <= MaxReloads
    /\ chat' = [chat EXCEPT ![a].pc = IF reload THEN "reload" ELSE "idle",
                            ![a].sent = chat[a].messages,
                            ![a].reloads = reload]
    /\ UNCHANGED <<skillsDir, skills, installed, persisted,
                   mcpVars, agentVars, schedVars, storeVars, knowVars, schemaVars,
                   boxVars, pureVars, lateVars>>

\* reload_skills when load_skills_from_dir returned Err: the arm formats the
\* error and does not touch self.skills.
OnLoadErrorClear(registry) == {}

OnLoadError(registry) == registry

\* reload_skills: load_skills_from_dir reads the directory; an error leaves
\* the registry as it is.
ReloadRead(a, ok) ==
    /\ chat[a].pc = "reload"
    /\ chat' = [chat EXCEPT ![a].pc = IF ok THEN "swap" ELSE "llm",
                            ![a].new_registry = IF ok THEN skillsDir ELSE {},
                            ![a].result = IF ok THEN @ ELSE "Failed to reload skills"]
    /\ skills' = IF ok THEN skills ELSE OnLoadError(skills)
    /\ UNCHANGED <<skillsDir, installed, persisted,
                   mcpVars, agentVars, schedVars, storeVars, knowVars, schemaVars,
                   boxVars, pureVars, lateVars>>

\* reload_skills: the registry is replaced under the write lock; the tool
\* returns and the loop goes on to its next LLM call.
ReloadSwap(a) ==
    /\ chat[a].pc = "swap"
    /\ skills' = ReplaceRegistry(skills, chat[a].new_registry)
    /\ installed' = Append(installed, skills')
    /\ chat' = [chat EXCEPT ![a].pc = "llm", ![a].result = "Skills reloaded"]
    /\ UNCHANGED <<skillsDir, persisted,
                   mcpVars, agentVars, schedVars, storeVars, knowVars, schemaVars,
                   boxVars, pureVars, lateVars>>

\* No skills, no conversation.
IdleSkills ==
    /\ skillsDir = {}
    /\ skills = {}
    /\ installed = <<{}>>
    /\ chat = [a \in Actors |-> NoChat]
    /\ persisted = <<>>

\* Agent::new: the registry is what the skills directory held at start-up.
InitSkills ==
    /\ skillsDir \in SUBSET SkillNames
    /\ skills = skillsDir
    /\ installed = <<skills>>
    /\ chat = [a \in Actors |-> NoChat]
    /\ persisted = <<>>

NextSkills ==
    \/ \E s \in SkillNames : EditSkills(s)
    \/ \E a \in Actors : ChatStart(a)
    \/ \E a \in Actors : ChatLoad(a)
    \/ \E a \in Actors : ChatSystem(a)
    \/ \E a \in Actors : ChatUser(a)
    \/ \E a \in Actors, reload \in BOOLEAN : ChatLlm(a, reload)
    \/ \E a \in Actors, ok \in BOOLEAN : ReloadRead(a, ok)
    \/ \E a \in Actors : ReloadSwap(a)

(***************************************************************************)
(*    WRITE_SKILL_FILE (src/agent.rs)                                      *)
(*    A string is the sequence of its characters, a path the sequence of   *)
(*    its components.                                                      *)
(***************************************************************************)

AsciiLowercase ==
    {"a", "b", "c", "d", "e", "f", "g", "h", "i", "j", "k", "l", "m",
     "n", "o", "p", "q", "r", "s", "t", "u", "v", "w", "x", "y", "z"}

AsciiDigit == {"0", "1", "2", "3", "4", "5", "6", "7", "8", "9"}

\* config.skills.directory
SkillsDir == << <<"s", "k", "i", "l", "l", "s">> >>

\* validate_skill_name: "Ok", or the error.
ValidateSkillNameAny(name) ==
    IF name = <<>> THEN "Skill name must not be empty" ELSE "Ok"

ValidateSkillName(name) ==
    IF name = <<>> THEN "Skill name must not be empty"
    ELSE IF Len(name) > 64 THEN "Skill name too long"
    ELSE IF ~\A i \in 1..Len(name) :
                name[i] \in AsciiLowercase \/ name[i] \in AsciiDigit \/ name[i] = "-"
    THEN "Skill name must contain only lowercase letters, numbers, and hyphens"
    ELSE "Ok"

\* str::split('/'): the pieces between the slashes, empty ones included.
RECURSIVE SplitSlash(_)
SplitSlash(str) ==
    IF \E i \in 1..Len(str) : str[i] = "/"
    THEN LET i == CHOOSE i \in 1..Len(str) :
                    str[i] = "/" /\ \A j \in 1..(i - 1) : str[j] # "/"
         IN  <<SubSeq(str, 1, i - 1)>> \o SplitSlash(SubSeq(str, i + 1, Len(str)))
    ELSE <<str>>

\* validate_skill_path: "Ok", or the error.
ValidateSkillPath(path) ==
    IF path = <<>> THEN "Relative path must not be empty"
    ELSE IF path[1] = "/" THEN "Relative path must not be absolute"
    ELSE IF \E i \in 1..Len(SplitSlash(path)) : SplitSlash(path)[i] = <<".", ".">>
    THEN "Path traversal ('..') is not allowed"
    ELSE "Ok"

\* PathBuf::join of a relative path: its components, where empty pieces and
\* "." pieces are none.
JoinRelative(base, str) ==
    base \o SelectSeq(SplitSlash(str), LAMBDA c : c # <<>> /\ c # <<".">>)

\* Where the operating system finds a path of directories without links:
\* ".." leaves the directory it follows.
RECURSIVE Physical(_)
Physical(path) ==
    IF path = <<>> THEN <<>>
    ELSE LET front == Physical(SubSeq(path, 1, Len(path) - 1))
             last == path[Len(path)]
         IN  IF last = <<".", ".">>
             THEN SubSeq(front, 1, Len(front) - 1)
             ELSE Append(front, last)

\* fs::write opens a file: the path must name one, not a directory.
NamesFile(str) ==
    /\ str[Len(str)] # "/"
    /\ SplitSlash(str)[Len(SplitSlash(str))] \notin {<<".">>, <<".", ".">>}

\* execute_tool, write_skill_file: the two validations, then
\* create_dir_all(parent) and fs::write(target) in directories without links.
WriteSkillFile ==
    /\ outcome = NoOutcome
    /\ "skill_name" \in DOMAIN given
    /\ LET name == ValidateSkillName(given.skill_name)
           path == ValidateSkillPath(given.relative_path)
           target == JoinRelative(Append(SkillsDir, given.skill_name), given.relative_path)
       IN  outcome' =
            IF name # "Ok" THEN [result |-> "Invalid skill_name", written |-> {}]
            ELSE IF path # "Ok" THEN [result |-> "Invalid relative_path", written |-> {}]
            ELSE IF ~NamesFile(given.relative_path)
            THEN [result |-> "Failed to write skill file", written |-> {}]
            ELSE [result |-> "Written", written |-> {Physical(target)}]
    /\ UNCHANGED <<given, stateVars>>

\* Strings of up to n characters of a set.
RECURSIVE Strings(_, _)
Strings(chars, n) ==
    IF n = 0 THEN {<<>>}
    ELSE Strings(chars, n - 1)
            \cup {Append(str, c) : str \in Strings(chars, n - 1), c \in chars}

\* Names of 64 and of 65 characters.
LongNames == {[i \in 1..64 |-> "a"], [i \in 1..65 |-> "a"]}

InitSkillFile ==
    /\ given \in [skill_name : Strings({"a", "1", "-", "A", "_", "/", "."}, 2) \cup LongNames,
                  relative_path : Strings({"a", "/", "."}, 4)]
    /\ outcome = NoOutcome

NextSkillFile == WriteSkillFile

(***************************************************************************)
(*    OUTBOUND CHUNKS (src/platform/telegram.rs split_message,             *)
(*    src/agent.rs split_response_chunks)                                  *)
(*    A text is the sequence of its characters; its UTF-8 form is the      *)
(*    sequence of its bytes <<c, k>>, the k-th byte of character c.        *)
(***************************************************************************)

\* Longest text, in characters.
MaxText == 5

\* Largest max_len.
MaxWindow == 5

\* Bytes of the longest UTF-8 character.
MaxCharBytes == 4

\* A letter, a space, a newline, a two-byte and a four-byte character.
Chars == {"a", " ", "nl", "e_acute", "emoji"}

\* char::len_utf8
LenUtf8(c) == IF c = "e_acute" THEN 2 ELSE IF c = "emoji" THEN MaxCharBytes ELSE 1

\* The UTF-8 bytes of a text.
RECURSIVE Utf8(_)
Utf8(text) ==
    IF text = <<>> THEN <<>>
    ELSE [k \in 1..LenUtf8(Head(text)) |-> <<Head(text), k>>] \o Utf8(Tail(text))

\* str::is_char_boundary: offset i is the start of a character or the end.
IsCharBoundary(bytes, i) == i = 0 \/ i = Len(bytes) \/ (i < Len(bytes) /\ bytes[i + 1][2] = 1)

\* text[start..end].to_string(): the characters of the bytes start+1..end.
ChunkTrimmed(bytes, start, end) ==
    LET slice == SubSeq(bytes, start + 1, end)
        whole == SelectSeq(slice, LAMBDA b : b[2] = 1 /\ b[1] \notin {" ", "nl"})
    IN  [i \in 1..Len(whole) |-> whole[i][1]]

Chunk(bytes, start, end) ==
    LET slice == SubSeq(bytes, start + 1, end)
        whole == SelectSeq(slice, LAMBDA b : b[2] = 1)
    IN  [i \in 1..Len(whole) |-> whole[i][1]]

\* split_message: walk end back to a character boundary.
RECURSIVE WalkBack(_, _, _)
WalkBack(bytes, start, end) ==
    IF end > start /\ ~IsCharBoundary(bytes, end)
    THEN WalkBack(bytes, start, end - 1) ELSE end

\* text[start..end].rfind(c).map(|pos| start + pos + 1): the offset behind
\* the last c of the slice (0: none).
RFindEnd(bytes, start, end, c) ==
    LET hits == {i \in (start + 1)..end : bytes[i][1] = c}
    IN  IF hits = {} THEN 0 ELSE CHOOSE i \in hits : \A j \in hits : j <= i

\* split_message: where the chunk that starts at start ends.
ActualEnd(bytes, max_len, start) ==
    LET limit == IF start + max_len < Len(bytes) THEN start + max_len ELSE Len(bytes)
        end == WalkBack(bytes, start, limit)
    IN  IF end < Len(bytes)
        THEN IF RFindEnd(bytes, start, end, "nl") # 0 THEN RFindEnd(bytes, start, end, "nl")
             ELSE IF RFindEnd(bytes, start, end, " ") # 0 THEN RFindEnd(bytes, start, end, " ")
             ELSE end
        ELSE end

\* split_message: the while loop from offset start.  An iteration that ends
\* where it started leaves start as it was, so the loop repeats it for ever,
\* pushing empty chunks: the function does not return.
RECURSIVE SplitLoop(_, _, _)
SplitLoop(bytes, max_len, start) ==
    IF ~(start < Len(bytes)) THEN [returns |-> TRUE, chunks |-> <<>>]
    ELSE LET actual_end == ActualEnd(bytes, max_len, start)
         IN  IF actual_end = start THEN [returns |-> FALSE, chunks |-> <<>>]
             ELSE LET rest == SplitLoop(bytes, max_len, actual_end)
                  IN  [returns |-> rest.returns,
                       chunks |-> IF rest.returns
                                  THEN <<Chunk(bytes, start, actual_end)>> \o rest.chunks
                                  ELSE <<>>]

\* split_message(text, max_len)
SplitMessage(text, max_len) ==
    IF Len(Utf8(text)) <= max_len THEN [returns |-> TRUE, chunks |-> <<text>>]
    ELSE SplitLoop(Utf8(text), max_len, 0)

\* split_response_chunks(text, max_len): slices of max_len characters.
RECURSIVE SplitResponseChunks(_, _)
SplitResponseChunks(chars, max_len) ==
    IF chars = <<>> THEN <<>>
    ELSE LET end == IF max_len < Len(chars) THEN max_len ELSE Len(chars)
         IN  <<SubSeq(chars, 1, end)>>
                \o SplitResponseChunks(SubSeq(chars, end + 1, Len(chars)), max_len)

\* The user-turn path splits the response.
SendResponse ==
    /\ outcome = NoOutcome
    /\ "max_len" \in DOMAIN given
    /\ outcome' = [result |-> "split_message",
                   returns |-> SplitMessage(given.text, given.max_len).returns,
                   chunks |-> SplitMessage(given.text, given.max_len).chunks]
    /\ UNCHANGED <<given, stateVars>>

\* The scheduled-job path splits the response.
SendJobResponse ==
    /\ outcome = NoOutcome
    /\ "max_len" \in DOMAIN given
    /\ outcome' = [result |-> "split_response_chunks",
                   returns |-> TRUE,
                   chunks |-> SplitResponseChunks(given.text, given.max_len)]
    /\ UNCHANGED <<given, stateVars>>

InitSplit ==
    /\ given \in [text : Strings(Chars, MaxText), max_len : 1..MaxWindow]
    /\ outcome = NoOutcome

NextSplit ==
    \/ SendResponse
    \/ SendJobResponse

(***************************************************************************)
(*    TASK LISTS (src/scheduler/reminders.rs list_active_for_user,         *)
(*    list_all_active; src/agent.rs list_scheduled_tasks)                  *)
(*    The scheduled_tasks table with its user_id column; the rows are      *)
(*    numbered in the order of created_at.                                 *)
(***************************************************************************)

\* Number of rows of the table.
MaxRows == 3

Statuses == {"active", "completed", "failed", "cancelled"}

NoRow == [user_id |-> "none", status |-> "none"]

\* query_tasks: the rows the WHERE clause keeps, ORDER BY created_at ASC.
QueryTasks(table, kept) ==
    Ascending({id \in DOMAIN table : table[id] \in kept})

\* "WHERE user_id = ?1 AND status = 'active'"
ListActiveForAnyUser(table, user_id) ==
    QueryTasks(table, [user_id : Users, status : {"active"}])

ListActiveForUser(table, user_id) ==
    QueryTasks(table, [user_id : {user_id}, status : {"active"}])

\* "WHERE status = 'active'"
ListAllActiveIn(table) ==
    QueryTasks(table, [user_id : Users, status : {"active"}])

\* execute_tool, list_scheduled_tasks, in a turn of user given.user_id.
ListScheduledTasks ==
    /\ outcome = NoOutcome
    /\ "table" \in DOMAIN given
    /\ outcome' = [result |-> "list_scheduled_tasks",
                   tasks |-> ListActiveForUser(given.table, given.user_id)]
    /\ UNCHANGED <<given, stateVars>>

\* restore_scheduled_tasks asks for the active tasks of all users.
RestoreScheduledTasks ==
    /\ outcome = NoOutcome
    /\ "table" \in DOMAIN given
    /\ outcome' = [result |-> "restore_scheduled_tasks",
                   tasks |-> ListAllActiveIn(given.table)]
    /\ UNCHANGED <<given, stateVars>>

InitLists ==
    /\ given \in [table : [1..MaxRows -> {NoRow} \cup [user_id : Users, status : Statuses]],
                  user_id : Users]
    /\ outcome = NoOutcome

NextLists ==
    \/ ListScheduledTasks
    \/ RestoreScheduledTasks

\* get_by_id: "WHERE id = ?1"; no row: None.
GetById(table, id) == IF id \in DOMAIN table THEN table[id] ELSE NoRow

\* The engine job of the task in row id (its scheduler_job_id is its uuid).
JobOf(id) == [uuid |-> id, task |-> id]

\* execute_tool, cancel_scheduled_task with argument task_id, in a turn of
\* user given.user_id: the row is fetched by its id, its job removed from
\* the engine, its status set cancelled.
CancelScheduledTaskById ==
    /\ outcome = NoOutcome
    /\ "task_id" \in DOMAIN given
    /\ LET task == GetById(given.table, given.task_id)
       IN  outcome' =
            IF task = NoRow
            THEN [result |-> "not found", table |-> given.table,
                  engine |-> given.engine]
            ELSE [result |-> "cancelled",
                  table |-> SetStatus(given.table, given.task_id, "cancelled"),
                  engine |-> RemoveJob(given.engine, given.task_id)]
    /\ UNCHANGED <<given, stateVars>>

\* A table, the jobs of some of its active rows, the user of the turn and the
\* task_id the LLM passes.
InitCancel ==
    /\ given \in [table : [1..MaxRows -> {NoRow} \cup [user_id : Users, status : Statuses]],
                  engine : SUBSET {JobOf(id) : id \in 1..MaxRows},
                  user_id : Users,
                  task_id : 1..MaxRows]
    /\ \A job \in given.engine : given.table[job.task].status = "active"
    /\ outcome = NoOutcome

NextCancel == CancelScheduledTaskById

(***************************************************************************)
(*    CRON VALIDATION (src/agent.rs validate_cron_expr, schedule_task)     *)
(*    A trigger_value is the sequence of its characters.                   *)
(***************************************************************************)

\* Longest trigger_value, in characters.
MaxExpr == 13

\* The whitespace characters of the model.
Whitespace == {" ", "tab"}

\* char::is_whitespace
IsWhitespace(c) == c \in Whitespace

\* str::split_whitespace: the maximal runs of characters that are not
\* separators; cur is the run being read.
RECURSIVE SplitFields(_, _, _)
SplitFields(expr, cur, seps) ==
    IF expr = <<>> THEN IF cur = <<>> THEN <<>> ELSE <<cur>>
    ELSE IF Head(expr) \in seps
         THEN IF cur = <<>> THEN SplitFields(Tail(expr), <<>>, seps)
              ELSE <<cur>> \o SplitFields(Tail(expr), <<>>, seps)
         ELSE SplitFields(Tail(expr), Append(cur, Head(expr)), seps)

SplitWhitespace(expr) == SplitFields(expr, <<>>, Whitespace)

\* validate_cron_expr: fields.len() != 6 is an error.
ValidateCronTextBySpaces(expr) == Len(SplitFields(expr, <<>>, {" "})) = 6

ValidateCronText(expr) == Len(SplitWhitespace(expr)) = 6

\* schedule_task with trigger_type recurring and all four arguments given:
\* the expression is validated, then the row is inserted.
ScheduleRecurring ==
    /\ outcome = NoOutcome
    /\ "trigger_value" \in DOMAIN given
    /\ outcome' = IF ValidateCronText(given.trigger_value)
                  THEN [result |-> "created", persisted |-> TRUE]
                  ELSE [result |-> "Invalid cron expression", persisted |-> FALSE]
    /\ UNCHANGED <<given, stateVars>>

\* The same text with a tab for every space.
Tabbed(expr) == [i \in 1..Len(expr) |-> IF expr[i] = " " THEN "tab" ELSE expr[i]]

InitCron ==
    /\ \E expr \in Strings({"*", " "}, MaxExpr) :
            given \in {[trigger_value |-> expr], [trigger_value |-> Tabbed(expr)]}
    /\ outcome = NoOutcome

NextCron == ScheduleRecurring

(***************************************************************************)
(*    THE BACKGROUND JOB RUNNER, REQUEST BY REQUEST (src/main.rs)          *)
(*    The fire closures send into the unbounded job channel; the runner    *)
(*    is the one task that receives from it.                               *)
(***************************************************************************)

\* Number of requests the fire closures send.
MaxSends == 3

\* ScheduledJobRequest number seq: whether its task is recurring and whether
\* its chat_id parses to an i64.
JobRequest(seq, t, is_recurring, chat_ok) ==
    [seq |-> seq, task_id |-> t, is_recurring |-> is_recurring, chat_ok |-> chat_ok]

\* UPDATE scheduled_tasks SET status = ? WHERE id = ?: no row, no change.
SetStatusOfRow(tbl, id, status) ==
    IF tbl[id].status = "none" THEN tbl ELSE SetStatus(tbl, id, status)

\* Where the runner's loop goes after an agent call that failed: continue.
AfterAgentErrorBreak(req) == "exit"

AfterAgentError(req) == "recv"

\* A fire closure runs: tx.send(req).
Dispatch(t, is_recurring, chat_ok) ==
    /\ sent < MaxSends
    /\ sent' = sent + 1
    /\ job_rx' = Append(job_rx, JobRequest(sent + 1, t, is_recurring, chat_ok))
    /\ UNCHANGED <<handled, now, tasks, engine, uuids, runner, main, sched, history,
                   mcpVars, agentVars, storeVars, knowVars, schemaVars, boxVars,
                   pureVars, skillVars, lockVars>>

\* job_rx.recv().await returns the oldest request; a one-shot is set
\* completed; agent.process_message is entered.
RunnerTake ==
    /\ runner.pc = "recv" /\ job_rx # <<>>
    /\ runner' = [pc |-> "agent", req |-> Head(job_rx), result |-> "none"]
    /\ job_rx' = Tail(job_rx)
    /\ tasks' = IF Head(job_rx).is_recurring THEN tasks
                ELSE SetStatusOfRow(tasks, Head(job_rx).task_id, "completed")
    /\ UNCHANGED <<sent, handled, now, engine, uuids, main, sched, history,
                   mcpVars, agentVars, storeVars, knowVars, schemaVars, boxVars,
                   pureVars, skillVars, lockVars>>

\* process_message returns.  Err: logged, a one-shot is set failed, continue.
RunnerAgent(ok) ==
    /\ runner.pc = "agent"
    /\ IF ok
       THEN /\ runner' = [runner EXCEPT !.pc = "reply", !.result = "Ok"]
            /\ UNCHANGED <<tasks, handled>>
       ELSE /\ runner' = [pc |-> AfterAgentError(runner.req), req |-> <<>>, result |-> "Err"]
            /\ tasks' = IF runner.req.is_recurring THEN tasks
                        ELSE SetStatusOfRow(tasks, runner.req.task_id, "failed")
            /\ handled' = Append(handled, [seq |-> runner.req.seq, result |-> "agent failed"])
    /\ UNCHANGED <<sent, now, engine, uuids, job_rx, main, sched, history,
                   mcpVars, agentVars, storeVars, knowVars, schemaVars, boxVars,
                   pureVars, skillVars, lockVars>>

\* chat_id.parse(): Err is logged and the request skipped; else the chunks
\* of the response are sent (a failed send is logged).
RunnerReply ==
    /\ runner.pc = "reply"
    /\ runner' = [pc |-> "recv", req |-> <<>>, result |-> runner.result]
    /\ handled' = Append(handled,
            [seq |-> runner.req.seq,
             result |-> IF runner.req.chat_ok THEN "sent" ELSE "unparseable chat_id"])
    /\ UNCHANGED <<sent, now, tasks, engine, uuids, job_rx, main, sched, history,
                   mcpVars, agentVars, storeVars, knowVars, schemaVars, boxVars,
                   pureVars, skillVars, lockVars>>

IdleRun ==
    /\ sent = 0
    /\ handled = <<>>

NextRunner ==
    \/ \E t \in TaskIds, is_recurring \in BOOLEAN, chat_ok \in BOOLEAN :
            Dispatch(t, is_recurring, chat_ok)
    \/ RunnerTake
    \/ \E ok \in BOOLEAN : RunnerAgent(ok)
    \/ RunnerReply

\* The runner is a task of the runtime that is scheduled while it can run,
\* and every agent call returns.
FairRunner ==
    /\ WF_vars(RunnerTake)
    /\ WF_vars(\E ok \in BOOLEAN : RunnerAgent(ok))
    /\ WF_vars(RunnerReply)

(***************************************************************************)
(*    THE CONNECTION MUTEX AND THE EMBEDDER (src/memory/knowledge.rs,      *)
(*    src/memory/conversations.rs)                                         *)
(***************************************************************************)

\* The tasks of the runtime that use the store: two callers (a user turn and
\* the job runner's turn) and the tasks save_message spawns.
StoreUsers == {"t1", "t2"}

Background == {"bg1", "bg2"}

Lockers == StoreUsers \cup Background

NoOp == [kind |-> "none", steps |-> <<>>]

\* What each operation does, in the order of its code.  "request" and
\* "response" are the two ends of embeddings.try_embed_one(..).await, "lock"
\* is self.conn.lock().await, "statements" the SQL run through the guard,
\* "unlock" the drop of the guard, "spawn" tokio::spawn of the embedding task.
RememberStepsLockFirst == <<"lock", "request", "response", "statements", "unlock">>

RememberSteps == <<"request", "response", "lock", "statements", "unlock">>

SearchKnowledgeSteps == <<"request", "response", "lock", "statements", "unlock">>

SaveMessageSteps == <<"lock", "statements", "unlock", "spawn">>

EmbedMessageSteps == <<"request", "response", "lock", "statements", "unlock">>

\* recall, load_messages, get_or_create_conversation, clear_conversation,
\* search_messages_with_embedding: the lock is taken first and no embedding
\* is asked for.
LockOnlySteps == <<"lock", "statements", "unlock">>

StepsOf(kind) ==
    IF kind = "remember" THEN RememberSteps
    ELSE IF kind = "search_knowledge" THEN SearchKnowledgeSteps
    ELSE IF kind = "save_message" THEN SaveMessageSteps
    ELSE IF kind = "embed_message" THEN EmbedMessageSteps
    ELSE LockOnlySteps

StoreCalls == {"remember", "search_knowledge", "save_message", "recall"}

\* The operation of task t after its next step.
Advance(o) ==
    IF Len(o.steps) = 1 THEN NoOp ELSE [o EXCEPT !.steps = Tail(@)]

AtStep(t, step) == op[t].steps # <<>> /\ Head(op[t].steps) = step

lockRest ==
    <<mcpVars, agentVars, schedVars, storeVars, knowVars, schemaVars, boxVars,
      pureVars, skillVars, runVars>>

\* A caller enters an operation of the store.
StoreCall(t, kind) ==
    /\ t \in StoreUsers /\ op[t] = NoOp
    /\ op' = [op EXCEPT ![t] = [kind |-> kind, steps |-> StepsOf(kind)]]
    /\ UNCHANGED <<conn, inflight, lockRest>>

\* try_embed_one sends its request.
EmbedRequest(t) ==
    /\ AtStep(t, "request")
    /\ inflight' = inflight \cup {t}
    /\ op' = [op EXCEPT ![t] = Advance(@)]
    /\ UNCHANGED <<conn, lockRest>>

\* try_embed_one returns Some(embedding) or None.  The spawned task stops on
\* None; remember and search_knowledge go on without the embedding.
EmbedResponse(t, some) ==
    /\ AtStep(t, "response")
    /\ inflight' = inflight \ {t}
    /\ op' = [op EXCEPT ![t] =
                IF ~some /\ @.kind = "embed_message" THEN NoOp ELSE Advance(@)]
    /\ UNCHANGED <<conn, lockRest>>

\* self.conn.lock().await returns the guard once the mutex is free.
LockConn(t) ==
    /\ AtStep(t, "lock")
    /\ conn = "none"
    /\ conn' = t
    /\ op' = [op EXCEPT ![t] = Advance(@)]
    /\ UNCHANGED <<inflight, lockRest>>

\* The statements of the operation, run through the guard.
Statements(t) ==
    /\ AtStep(t, "statements")
    /\ conn = t
    /\ op' = [op EXCEPT ![t] = Advance(@)]
    /\ UNCHANGED <<conn, inflight, lockRest>>

\* The guard is dropped (drop(conn) in save_message, end of scope elsewhere).
UnlockConn(t) ==
    /\ AtStep(t, "unlock")
    /\ conn' = IF conn = t THEN "none" ELSE conn
    /\ op' = [op EXCEPT ![t] = Advance(@)]
    /\ UNCHANGED <<inflight, lockRest>>

\* save_message after the drop: if should_embed, the embedding task is
\* spawned; save_message returns.
SpawnEmbedding(t, should_embed) ==
    /\ AtStep(t, "spawn")
    /\ IF should_embed
       THEN \E b \in Background :
                /\ op[b] = NoOp
                /\ op' = [op EXCEPT ![t] = Advance(@),
                                    ![b] = [kind |-> "embed_message",
                                            steps |-> StepsOf("embed_message")]]
       ELSE op' = [op EXCEPT ![t] = Advance(@)]
    /\ UNCHANGED <<conn, inflight, lockRest>>

NextLock ==
    \/ \E t \in StoreUsers, kind \in StoreCalls : StoreCall(t, kind)
    \/ \E t \in Lockers : EmbedRequest(t)
    \/ \E t \in Lockers, some \in BOOLEAN : EmbedResponse(t, some)
    \/ \E t \in Lockers : LockConn(t)
    \/ \E t \in Lockers : Statements(t)
    \/ \E t \in Lockers : UnlockConn(t)
    \/ \E t \in StoreUsers, should_embed \in BOOLEAN : SpawnEmbedding(t, should_embed)

IdleLock ==
    /\ conn = "none"
    /\ op = [t \in Lockers |-> NoOp]
    /\ inflight = {}

IdleLate == IdleRun /\ IdleLock

InitRest == InitKnow /\ InitSchema /\ IdleBox /\ IdlePure /\ IdleSkills /\ IdleLate

InitMemory == InitStore /\ NoEmbedding /\ InitRest

(***************************************************************************)
(*                            SPECIFICATIONS                               *)
(***************************************************************************)

\* The parts a specification does not move stay in their first state.
IdleSched == InitSched /\ tasks = [t \in TaskIds |-> NoTask]

Init == InitMcp /\ InitAgent /\ IdleSched /\ InitMemory

InitOfMcp == InitMcp /\ InitTurns /\ IdleSched /\ InitMemory

InitOfTurns == InitMcp /\ InitTurns /\ IdleSched /\ InitMemory

InitOfSched == InitMcp /\ InitTurns /\ InitSched /\ InitMemory

InitOfLife == InitMcp /\ InitTurns /\ InitLife /\ InitMemory

InitOfStore == InitMcp /\ InitTurns /\ IdleSched /\ InitMemory

InitOfEmbed == InitMcp /\ InitTurns /\ IdleSched /\ InitStore /\ WithEmbedding /\ InitRest

InitOfKnow == InitMcp /\ InitTurns /\ IdleSched /\ InitStore /\ WithEmbedding /\ InitRest

InitOfSchema == InitMcp /\ InitTurns /\ IdleSched /\ InitMemory

InitOfBox == InitMcp /\ InitTurns /\ IdleSched /\ InitStore /\ NoEmbedding /\ InitKnow /\ InitSchema /\ InitBox /\ IdlePure /\ IdleSkills /\ IdleLate

\* Everything but the arguments and the outcome of a call, at rest.
IdleState == InitMcp /\ InitTurns /\ IdleSched /\ InitStore /\ NoEmbedding /\ InitKnow /\ InitSchema /\ IdleBox /\ IdleSkills /\ IdleLate

InitOfNames == IdleState /\ InitNames

InitOfSplit == IdleState /\ InitSplit

InitOfLists == IdleState /\ InitLists

InitOfCron == IdleState /\ InitCron

InitOfRunner == InitMcp /\ InitTurns /\ InitSched /\ InitMemory

InitOfSkillFile == IdleState /\ InitSkillFile

InitOfSkills == InitMcp /\ InitTurns /\ IdleSched /\ InitStore /\ NoEmbedding /\ InitKnow /\ InitSchema /\ IdleBox /\ IdlePure /\ InitSkills /\ IdleLate

SpecMcp == InitOfMcp /\ [][NextMcp]_vars

SpecAgent == Init /\ [][NextAgent]_vars

SpecTurns == InitOfTurns /\ [][NextTurns]_vars

SpecConcurrent == InitOfTurns /\ [][NextConcurrent]_vars

SpecSched == InitOfSched /\ [][NextSched]_vars

SpecLife == InitOfLife /\ [][NextLife]_vars /\ FairLife

InitOfRestore == InitMcp /\ InitTurns /\ InitRestore /\ InitMemory

SpecRestore == InitOfRestore /\ [][NextRestore]_vars /\ FairRestore

InitOfLock == InitMcp /\ InitTurns /\ IdleSched /\ InitMemory

SpecLock == InitOfLock /\ [][NextLock]_vars

SpecPersist == InitOfLife /\ [][NextPersist]_vars

SpecStore == InitOfStore /\ [][NextStore]_vars

SpecEmbed == InitOfEmbed /\ [][NextEmbed]_vars

SpecKnow == InitOfKnow /\ [][NextKnow]_vars

SpecSchema == InitOfSchema /\ [][NextSchema]_vars

SpecBox == InitOfBox /\ [][NextBox]_vars

SpecNames == InitOfNames /\ [][NextNames]_vars

SpecSplit == InitOfSplit /\ [][NextSplit]_vars

SpecLists == InitOfLists /\ [][NextLists]_vars

InitOfCancel == IdleState /\ InitCancel

SpecCancel == InitOfCancel /\ [][NextCancel]_vars

SpecCron == InitOfCron /\ [][NextCron]_vars

SpecRunner == InitOfRunner /\ [][NextRunner]_vars /\ FairRunner

SpecSkillFile == InitOfSkillFile /\ [][NextSkillFile]_vars

SpecSkills == InitOfSkills /\ [][NextSkills]_vars

(***************************************************************************)
(*                        PROPERTIES: agentic loop                         *)
(***************************************************************************)

\* The rows of a message list that the call with id t produced, in order.
Own(msgs, t) == SelectSeq(msgs, LAMBDA m : m.by = t)

IsToolRound(m) == m.role = "assistant" /\ m.tool_calls # <<>>

\* Position i holds an assistant message whose first k tool calls are
\* answered, in call order, by the k messages that follow it.
Answered(msgs, i, k) ==
    /\ i + k <= Len(msgs)
    /\ \A j \in 1..k :
        /\ msgs[i + j].role = "tool"
        /\ msgs[i + j].tool_call_id = msgs[i].tool_calls[j]

\* Every assistant message with n tool calls is followed by exactly n tool
\* messages, one per call, in call order.
Paired(msgs) ==
    \A i \in 1..Len(msgs) :
        IsToolRound(msgs[i]) =>
            LET n == Len(msgs[i].tool_calls)
            IN  /\ Answered(msgs, i, n)
                /\ i + n < Len(msgs) => msgs[i + n + 1].role # "tool"

\* All but the last tool round are complete and the last one has its first
\* k calls answered and nothing after them.
PairedUpTo(msgs, k) ==
    \E i \in 1..Len(msgs) :
        /\ IsToolRound(msgs[i])
        /\ Paired(SubSeq(msgs, 1, i - 1))
        /\ Answered(msgs, i, k)
        /\ Len(msgs) = i + k

\* The position of the last assistant message with tool calls.
LastRound(msgs) ==
    CHOOSE i \in 1..Len(msgs) :
        IsToolRound(msgs[i]) /\ \A j \in (i + 1)..Len(msgs) : ~IsToolRound(msgs[j])

ToolRoundsIn(msgs) ==
    Cardinality({i \in 1..Len(msgs) : IsToolRound(msgs[i])})

\* C1: whenever the LLM has returned an assistant message with n >= 1 tool
\* calls, that message is persisted and appended to the turn's list, and when
\* the next LLM call is issued (or the call has returned) exactly n tool
\* messages follow it in the list and among the turn's persisted rows, one
\* per call, in call order, each with the tool_call_id of its call; during
\* the round the calls answered so far are a prefix in call order.
C1_ToolMessagesFollow ==
    \A a \in Actors :
        LET t == turn[a].id
            mine == Own(turn[a].messages, t)
            rows == Own(db, t)
        IN  /\ ToolRoundsIn(mine) = turn[a].toolRounds
            /\ ToolRoundsIn(rows) = turn[a].toolRounds
            /\ turn[a].pc \in {"llm", "done", "error"} =>
                    Paired(mine) /\ Paired(rows)
            /\ turn[a].pc = "tools" =>
                    LET k == Len(mine[LastRound(mine)].tool_calls) - Len(turn[a].pending)
                    IN  k >= 0 /\ PairedUpTo(mine, k) /\ PairedUpTo(rows, k)

\* C1 witness: the loop is about to call the LLM again after a response with
\* two tool calls, both answered.
C1_Witness ==
    \E a \in Actors :
        /\ turn[a].pc = "llm"
        /\ turn[a].toolRounds >= 1
        /\ \E i \in 1..Len(db) :
            /\ db[i].by = turn[a].id
            /\ Len(db[i].tool_calls) = 2
            /\ Answered(db, i, 2)

\* C4: one process_message call invokes the LLM at most max_iterations
\* times; when every response carried tool calls the call returns the fixed
\* "reached maximum iterations" text, which is returned in no other case and
\* is not persisted: the last row of the turn is the last tool message.
C4_IterationBudget ==
    \A a \in Actors :
        LET rows == Own(db, turn[a].id)
        IN  /\ turn[a].llmCalls <= MaxIterations
            /\ turn[a].pc = "done" =>
                /\ turn[a].toolRounds = turn[a].llmCalls <=> turn[a].ret = MaxIterText
                /\ turn[a].ret = MaxIterText =>
                    /\ turn[a].llmCalls = MaxIterations
                    /\ \A i \in 1..Len(db) : db[i].content # MaxIterText
                    /\ Cardinality({i \in 1..Len(rows) : rows[i].role = "assistant"})
                            = MaxIterations
                    /\ MaxIterations > 0 => rows[Len(rows)].role = "tool"

\* C4 witness: a call has used up its budget with tool-call responses and
\* has returned the fixed text.
C4_Witness ==
    \E a \in Actors :
        /\ turn[a].pc = "done"
        /\ turn[a].ret = MaxIterText
        /\ turn[a].llmCalls = MaxIterations

\* C7: when an LLM call fails, process_message returns the error, no
\* assistant message is persisted for the failed call (the turn has one
\* assistant row per successful LLM call), the user message of the turn stays
\* persisted, and a turn that loads the conversation afterwards has it in its
\* message list.
C7_LlmFailureKeepsUserMessage ==
    \A a \in Actors :
        LET rows == Own(db, turn[a].id)
        IN  /\ turn[a].pc = "error" =>
                /\ turn[a].ret = "Err"
                /\ \E i \in 1..Len(db) : db[i] = UserMsg(turn[a].id)
                /\ Cardinality({i \in 1..Len(rows) : rows[i].role = "assistant"})
                        = turn[a].llmCalls - 1
            /\ turn[a].pc \notin {"idle", "load"} =>
                \A t \in turn[a].seenFailed :
                    \E i \in 1..Len(turn[a].messages) :
                        turn[a].messages[i] = UserMsg(t)

\* C7 witness: a turn failed at its second LLM call, and the next turn has
\* loaded the conversation and is about to call the LLM.
C7_Witness ==
    \E a, b \in Actors :
        /\ turn[a].pc = "error" /\ turn[a].llmCalls = 2
        /\ turn[b].pc = "llm" /\ turn[a].id \in turn[b].seenFailed

\* C8: a tool call that fails, or whose arguments are not valid JSON (it is
\* dispatched with an empty object), yields a tool message with a string
\* result (the error phrase when it failed) and does not abort the turn:
\* after the last call of the round the loop goes on, and an error return can
\* only come from a later LLM call.
C8_ToolFailureContinues ==
    \A a \in Actors :
        turn[a].last # <<>> =>
            LET l == turn[a].last
                rows == Own(db, turn[a].id)
            IN  /\ l.arguments = "garbage" => l.parsed = "empty object"
                /\ \E i \in 1..Len(rows) :
                    /\ rows[i].role = "tool"
                    /\ rows[i].tool_call_id = l.id
                    /\ rows[i].content = IF l.fails THEN "Tool error" ELSE "result"
                /\ turn[a].pc \in {"tools", "llm", "done", "error"}
                /\ turn[a].pending = <<>> =>
                    /\ turn[a].pc # "tools"
                    /\ turn[a].iteration >= l.id[2]
                    /\ turn[a].pc = "error" => turn[a].llmCalls > l.id[2]
                    /\ turn[a].pc = "done" =>
                        turn[a].llmCalls > l.id[2] \/ turn[a].ret = MaxIterText

\* C8 witness: the last tool call of a round had unparseable arguments and
\* failed, and the loop is at its next LLM call.
C8_Witness ==
    \E a \in Actors :
        /\ turn[a].last # <<>>
        /\ turn[a].last.fails /\ turn[a].last.arguments = "garbage"
        /\ turn[a].pending = <<>>
        /\ turn[a].pc = "llm" /\ turn[a].iteration < MaxIterations

(***************************************************************************)
(*                       PROPERTIES: external tools                        *)
(***************************************************************************)

\* A caller holds a tool call in flight on s: from taking the mutex of s to
\* the return of call_tool, the reconnect and the retry included.
InFlight(c, s) ==
    call[c].server = s /\ call[c].pc \in {"first", "reconnect", "second"}

\* C5: for each external tool server at most one tool call (with its
\* reconnect and retry) is in flight at any time, and whoever is in flight
\* holds that server's mutex; other callers of that server wait.
C5_PerServerSerialized ==
    \A s \in Servers :
        /\ Cardinality({c \in Callers : InFlight(c, s)}) <= 1
        /\ \A c \in Callers : InFlight(c, s) => client[s] = c

\* C5 witness: two calls are in flight at the same time on two different
\* servers.
C5_Witness ==
    \E c1, c2 \in Callers, s1, s2 \in Servers :
        c1 # c2 /\ s1 # s2 /\ InFlight(c1, s1) /\ InFlight(c2, s2)

\* C6: a failed call is followed by one respawn and, when the respawn
\* succeeds, exactly one retry; the tool is invoked at most twice per
\* call_tool; a call that succeeds on the retry reaches the agent as the
\* successful result; a failed respawn or retry reaches the agent as a
\* tool-result string.
C6_RetryOnce ==
    \A c \in Callers :
        /\ call[c].invoked <= 2
        /\ call[c].pc = "idle" /\ call[c].result # "none" =>
            /\ call[c].first = "ok" => call[c].invoked = 1 /\ call[c].respawn = "none"
            /\ call[c].first = "err" => call[c].respawn # "none"
            /\ call[c].respawn = "ok" => call[c].invoked = 2 /\ call[c].second # "none"
            /\ call[c].respawn = "err" => call[c].invoked = 1 /\ call[c].second = "none"
            /\ call[c].second = "ok" => call[c].out = <<"string", "result">>
            /\ call[c].respawn = "err" \/ call[c].second = "err" =>
                /\ call[c].out[1] = "string"
                /\ call[c].out[2] = "MCP tool error"

\* C6 witness: a call whose first attempt failed has succeeded on the retry
\* and has been handed to the agent.
C6_Witness ==
    \E c \in Callers :
        /\ call[c].pc = "idle"
        /\ call[c].first = "err" /\ call[c].second = "ok"
        /\ call[c].out = <<"string", "result">>

\* C30: in the persisted history of the conversation, whenever no call is
\* in the middle of a round of tool calls, every assistant message with tool
\* calls is followed at once by its tool messages, one per call in call
\* order, also when the handler's and the runner's turns overlap or a turn
\* has ended in an error.
C30_HistoryPaired ==
    (\A a \in Actors : turn[a].pc # "tools") => Paired(db)

\* The positions of the persisted system messages of the conversation.
SystemRows == {i \in 1..Len(db) : db[i].role = "system"}

\* C31: a conversation that has messages has exactly one persisted system
\* message, and it is the first message, also when the handler's and the
\* runner's turns start together on an empty conversation.
C31_OneSystemMessageFirst ==
    db # <<>> => SystemRows = {1}

(***************************************************************************)
(*    PROPERTIES OF THE SCHEDULER, THE RESTORE AND THE RUNNER (SpecSched)  *)
(***************************************************************************)

\* The runner step that enters process_message, and the one that leaves it
\* with a result.
EntersAgent == runner.pc = "mark" /\ runner'.pc = "call"

LeavesAgent == runner.pc = "call" /\ runner'.pc = "recv" /\ runner'.result # "none"

\* C2: for a non-recurring request taken from the job channel the runner has
\* set the task's status to completed when it invokes process_message, and
\* when process_message returns the status is overwritten to failed if and
\* only if the call returned an error (otherwise the table is left alone).
C2_CompletedBeforeRun ==
    [][/\ (EntersAgent /\ ~runner.req.is_recurring)
            => tasks'[runner.req.task_id].status = "completed"
       /\ (LeavesAgent /\ ~runner.req.is_recurring)
            => /\ runner'.result = "Err" <=> tasks'[runner.req.task_id].status = "failed"
               /\ runner'.result = "Err" => tasks' = SetStatus(tasks, runner.req.task_id, "failed")
               /\ runner'.result = "Ok" => tasks' = tasks]_vars

\* A one-shot fired, its agent call failed, and the row reads failed.
C2_Witness ==
    /\ runner.result = "Err"
    /\ \E t \in TaskIds :
        /\ tasks[t].trigger_type = "one_shot"
        /\ tasks[t].status = "failed"
        /\ history[t].processed = 1

\* C3: over fires, crashes and restores the agent is entered at most once
\* for a one-shot task: a one-shot job runs its fire closure at most once,
\* and a one-shot whose fire the runner has taken has no job in the engine
\* that still holds a fire closure (no restore registers it again).
C3_OneShotAtMostOnce ==
    /\ \A t \in TaskIds :
            tasks[t].trigger_type = "one_shot" => history[t].processed <= 1
    /\ \A j \in engine : j.one_shot => j.calls <= 1
    /\ \A j \in engine : (j.one_shot /\ j.task_opt) => ~history[j.task].taken

\* The runner took a one-shot's fire, the process crashed before the row was
\* touched, and the restore that followed has finished without a new job.
C3_Witness ==
    /\ main.pc = "serving"
    /\ \E t \in TaskIds :
        /\ tasks[t].trigger_type = "one_shot"
        /\ history[t].taken /\ history[t].pruned
        /\ \A j \in engine : j.task # t

\* The restore loop handles the one_shot task at the head of its list.
RestoresOneShot ==
    /\ main.pc = "restore" /\ main'.pc = "restore"
    /\ main.list # <<>> /\ main.uuid = 0
    /\ main' # main
    /\ tasks[Head(main.list)].trigger_type = "one_shot"

\* C9: in the startup restore a one_shot whose trigger_value is no timestamp
\* or an instant not strictly after now is set completed and the engine gets
\* no job for it, and no request for it is in the job channel or job for it
\* in the engine at any time afterwards; a one_shot whose instant is after
\* now gets, unless the engine refuses it, a job due at that instant, which
\* is a delay of at - now.
C9_RestoreOneShot ==
    /\ [][RestoresOneShot =>
            LET t == Head(main.list)
                v == tasks[t].trigger_value
            IN  IF v.kind # "instant" \/ v.n <= now
                THEN /\ tasks'[t].status = "completed"
                     /\ engine' = engine
                     /\ job_rx' = job_rx
                ELSE \/ engine' = engine /\ tasks' = tasks
                     \/ \E j \in engine' \ engine :
                            /\ engine' = engine \cup {j}
                            /\ j.task = t /\ j.one_shot /\ j.task_opt
                            /\ j.due - now = v.n - now]_vars
    /\ [](\A t \in TaskIds : history[t].pruned =>
            /\ \A j \in engine : j.task # t
            /\ \A i \in DOMAIN job_rx : job_rx[i].task_id # t)

\* The restore has dropped a one_shot whose instant had passed.
C9_Witness ==
    \E t \in TaskIds :
        /\ history[t].pruned
        /\ tasks[t].status = "completed"
        /\ tasks[t].trigger_value.kind = "instant"
        /\ tasks[t].trigger_value.n <= now

RegisterFailure == "Failed to register task with scheduler"

\* C11: when schedule_task has inserted the row and the engine registration
\* then fails, that step sets the row's status to failed and the tool result
\* reports the failure; until schedule_task returns the row reads failed
\* (or cancelled, if a concurrent turn cancelled it meanwhile).
C11_RegistrationFailureMarksFailed ==
    /\ [][(sched.pc = "register" /\ sched'.pc = "return") =>
            /\ tasks'[sched.task].status = "failed"
            /\ sched'.result = RegisterFailure
            /\ engine' = engine]_vars
    /\ []((sched.pc = "return" /\ sched.result = RegisterFailure) =>
            tasks[sched.task].status \in {"failed", "cancelled"})

\* schedule_task is about to return the failure and the row reads failed.
C11_Witness ==
    /\ sched.pc = "return" /\ sched.result = RegisterFailure
    /\ tasks[sched.task].status = "failed"
    /\ \A j \in engine : j.task # sched.task

\* C12: the runner's handling of a recurring request (taking it, entering
\* the agent, leaving it with Ok or Err) never changes the task table, so a
\* recurring task that is active stays active over its fires.
C12_RecurringStaysActive ==
    [][(runner.pc \in {"mark", "call"} /\ runner'.pc # runner.pc
            /\ runner.req.is_recurring)
        => tasks' = tasks]_vars

\* A recurring task fired, its agent call failed, and it is still active.
C12_Witness ==
    /\ runner.result = "Err"
    /\ \A t \in TaskIds : tasks[t].status # "none" =>
            tasks[t].trigger_type = "recurring" /\ tasks[t].status = "active"
    /\ \E t \in TaskIds : tasks[t].status = "active"

\* C13: cancel_scheduled_task on a task whose scheduler_job_id is set sets
\* the status to cancelled and leaves no job for that task in the engine.
C13_CancelRemovesJob ==
    [][\A t \in TaskIds :
        (tasks[t].status \notin {"none", "cancelled"} /\ tasks'[t].status = "cancelled"
            /\ tasks[t].scheduler_job_id # 0)
        => \A j \in engine' : j.task # t]_vars

\* The status changes of the lifecycle: a row is created active; active
\* becomes completed, failed or cancelled; completed becomes failed.
Lifecycle ==
    {<<"none", "active">>, <<"active", "completed">>, <<"active", "failed">>,
     <<"active", "cancelled">>, <<"completed", "failed">>}

\* C28: every change of a task's status is a transition of the lifecycle;
\* failed and cancelled are terminal and completed changes only to failed,
\* and that only in the runner's step that returns from a failed agent call.
C28_StatusFollowsLifecycle ==
    [][\A t \in TaskIds :
        tasks'[t].status # tasks[t].status =>
            /\ <<tasks[t].status, tasks'[t].status>> \in Lifecycle
            /\ tasks[t].status = "completed" => (LeavesAgent /\ runner'.result = "Err")]_vars

\* C29: once cancel_scheduled_task has set a task cancelled, the runner does
\* not enter the agent for a request of that task.
C29_NoRunAfterCancel ==
    [][EntersAgent => tasks[runner.req.task_id].status # "cancelled"]_vars

\* C34: every job of the engine belongs to a task that has a row; a
\* schedule_task call that is rejected at validation (argument missing,
\* unknown trigger_type, cron expression or one-shot time invalid or past)
\* leaves the table and the engine as they are; the row is inserted, active,
\* for a valid trigger only and before any job exists for it, and the job is
\* registered for a task whose row is there.
C34_RowBeforeJob ==
    /\ [](\A j \in engine : tasks[j.task].status # "none")
    /\ [][(sched.pc = "none" /\ sched'.pc = "return")
            => (tasks' = tasks /\ engine' = engine)]_vars
    /\ [][\A t \in TaskIds :
            (tasks[t].status = "none" /\ tasks'[t].status # "none") =>
                /\ tasks'[t].status = "active"
                /\ engine' = engine
                /\ \A j \in engine : j.task # t
                /\ \/ /\ tasks'[t].trigger_type = "one_shot"
                      /\ tasks'[t].trigger_value.kind = "instant"
                      /\ tasks'[t].trigger_value.n > now
                   \/ /\ tasks'[t].trigger_type = "recurring"
                      /\ tasks'[t].trigger_value = Cron(6)]_vars
    /\ [][(sched.pc = "register" /\ engine' # engine)
            => tasks[sched.task].status # "none"]_vars

\* schedule_task has registered the job of the row it inserted, and other
\* calls were rejected before.
C34_Witness ==
    /\ sched.pc = "persist"
    /\ tasks[sched.task].status = "active"
    /\ \E j \in engine : j.task = sched.task /\ j.uuid = sched.uuid
    /\ now > 0

\* The restore loop is at a task the engine is asked to register (a recurring
\* task, or a one-shot whose time is ahead), and the step registers nothing.
Restorable(t) ==
    \/ tasks[t].trigger_type = "recurring"
    \/ ParseOneShotDelay(tasks[t].trigger_value, now).ok

EngineRefuses ==
    /\ main.pc = "restore" /\ main.uuid = 0 /\ main.list # <<>>
    /\ Restorable(Head(main.list))
    /\ engine' = engine
    /\ main' # main

InList(t, list) == \E i \in 1..Len(list) : list[i] = t

\* C35: when the engine refuses to register an active task again at startup,
\* the task's row is left as it is (status active included), the loop goes on
\* with the tasks behind it, each of them gets its turn, and the restore ends.
C35_RefusedRestoreKeepsRow ==
    /\ [][EngineRefuses =>
            /\ tasks' = tasks
            /\ main'.pc = "restore"
            /\ main'.list = Tail(main.list)]_vars
    /\ \A t \in 1..MaxRestored :
            (main.pc = "restore" /\ InList(t, main.list))
                ~> (main.pc = "restore" /\ main.list # <<>> /\ Head(main.list) = t)
    /\ (main.pc = "restore") ~> (main.pc = "serving")

\* The restore is over: the first task was refused and is still active
\* without a job, the second one has its job.
C35_Witness ==
    /\ main.pc = "serving"
    /\ tasks[1].status = "active" /\ tasks[1].scheduler_job_id = 0
    /\ Restorable(1)
    /\ \A j \in engine : j.task # 1
    /\ \E j \in engine : j.task = 2 /\ tasks[2].scheduler_job_id = j.uuid

\* The engine holds the one-shot job that schedule_task registered for t.
Registered(t) ==
    /\ tasks[t].trigger_type = "one_shot"
    /\ \E j \in engine : j.task = t /\ j.one_shot

\* C33: while the process lives and agent calls return, every one-shot task
\* that schedule_task registered with the engine gets the status completed
\* or failed, unless it is cancelled.
C33_OneShotEnds ==
    \A t \in TaskIds :
        Registered(t) ~> (tasks[t].status \in {"completed", "failed", "cancelled"})

\* A one-shot that schedule_task registered has fired, the agent has run its
\* prompt once, and the row reads completed.
C33_Witness ==
    /\ runner.result = "Ok"
    /\ \E t \in TaskIds :
        /\ tasks[t].trigger_type = "one_shot"
        /\ tasks[t].trigger_value.kind = "instant"
        /\ tasks[t].status = "completed"
        /\ tasks[t].scheduler_job_id # 0
        /\ history[t].processed = 1

(***************************************************************************)
(*                   PROPERTIES OF THE MEMORY STORE                        *)
(***************************************************************************)

\* The save_message calls (by their number) that went to conversation c.
SavesTo(c) == {q \in 1..Len(saved) : saved[q].conv = c}

\* The save_message calls made for the pair u.
SavesOf(u) == {q \in 1..Len(saved) : saved[q].user = u}

\* C14: once clear_conversation(u) has completed, and until the pair gets a
\* conversation or a message again, there is no conversations row and no
\* messages row of the pair, and no message_embeddings row of any message
\* that was saved for the pair.
C14_ClearLeavesNothing ==
    \A u \in Users :
        since[u].cleared =>
            /\ \A c \in convs : c.user # u
            /\ \A m \in messages : m.seq \notin SavesOf(u)
            /\ \A e \in embeds : e.seq \notin SavesOf(u)

C16_OneConversationPerUser ==
    \A u \in Users :
        /\ Cardinality({c \in convs : c.user = u}) <= 1
        /\ Cardinality(since[u].ids) <= 1

\* Both pairs have a conversation that holds messages, and its id is the one
\* the calls for the pair returned.
C16_Witness ==
    \A u \in Users : \E c \in convs :
        /\ c.user = u /\ since[u].ids = {c.id}
        /\ \E m \in messages : m.conv = c.id

\* C18: no message_embeddings row is keyed by the rowid of a message whose
\* role is tool.
C18_NoToolEmbedding ==
    \A e \in embeds : \A m \in messages :
        m.rowid = e.rowid => m.role # "tool"

(***************************************************************************)
(*                  PROPERTIES OF THE KNOWLEDGE STORE                      *)
(***************************************************************************)

\* The value of the last completed remember or forget of key k ("none": no
\* call yet, or a forget).
LastValue(k) ==
    LET mine == {i \in 1..Len(klog) : klog[i].key = k}
    IN  IF mine = {} THEN "none"
        ELSE klog[CHOOSE i \in mine : \A j \in mine : j <= i].value

\* C17: for every key, recall returns the value of the last completed
\* remember, the knowledge table holds one row for it (none before the first
\* remember and after a forget), and the embedding rows of the entry are at
\* most one, which is the embedding of the entry's current value.
C17_RememberIsUpsert ==
    \A k \in Keys :
        LET rows == {r \in knowledge : r.key = k}
        IN  /\ Recall(k) = LastValue(k)
            /\ Cardinality(rows) = IF LastValue(k) = "none" THEN 0 ELSE 1
            /\ \A r \in rows :
                LET mine == {e \in kembeds : e.rowid = r.rowid}
                IN  /\ Cardinality(mine) <= 1
                    /\ \A e \in mine : e.text = <<k, r.value>>

\* A key was remembered with one value and then with another one, each time
\* with an embedding, while another remember call is under way.
C17_Witness ==
    /\ \E k \in Keys, i, j \in 1..Len(klog) :
        /\ i < j /\ klog[i].key = k /\ klog[j].key = k
        /\ klog[i].value = "v1" /\ klog[j].value = "v2"
        /\ LastValue(k) = "v2"
        /\ \E e \in kembeds : e.rowid = RowidOf(knowledge, k) /\ e.text = <<k, "v2">>
    /\ \E a \in Callers : remember[a].pc = "lock"

(***************************************************************************)
(*                    PROPERTIES OF THE VECTOR TABLES                      *)
(***************************************************************************)

\* C19: when an open with dimension d has returned, schema_meta records d
\* and both vector tables exist with dimension d; their earlier rows are
\* gone if the dimension stored before the open was absent or another one,
\* and are all still there if it was d.
C19_OpenSetsDimension ==
    opening.pc = "opened" =>
        /\ schema.embedding_dims = opening.dims
        /\ \A t \in Tables :
            /\ schema[t].exists
            /\ schema[t].dims = opening.dims
            /\ schema[t].rows =
                IF opening.before.embedding_dims = opening.dims
                THEN opening.before[t].rows ELSE FALSE

\* The same, for the opens before which no open was cut short.
C19_AfterCompleteOpens ==
    (opening.pc = "opened" /\ \A t \in Tables :
        opening.before[t].exists = (opening.before.embedding_dims # 0)
            /\ opening.before[t].dims = opening.before.embedding_dims)
    => C19_OpenSetsDimension

(***************************************************************************)
(*                     PROPERTIES OF THE FILE TOOLS                        *)
(***************************************************************************)

\* The request resolves, in the file system the call found, to an object
\* or to a place for a new file that lies outside the sandbox.
Escapes ==
    LET w == Resolve(box.before, RequestedPath(box.request))
    IN  w.status # "error" /\ ~StartsWith(w.path, Sandbox)

\* C20: a call of read_file, write_file or list_files reads, writes, creates
\* and lists nothing outside the sandbox root, and a request that resolves
\* to a place outside it gets an error and leaves everything untouched.
C20_StaysInSandbox ==
    box.pc = "done" =>
        /\ \A path \in touched : StartsWith(path, Sandbox)
        /\ Escapes => box.result # "Ok" /\ touched = {} /\ files = box.before

\* The same for the requests that do not end in a symbolic link whose
\* target does not exist.
C20_ButDanglingLinks ==
    (box.pc = "done"
        /\ ~(Node(box.before, RequestedPath(box.request)).type = "link"
                /\ ~Exists(box.before, RequestedPath(box.request))))
    => C20_StaysInSandbox

\* The request names a place below the sandbox, without "..", whose parent
\* directory does not exist in the file system the call found.
ParentMissing ==
    LET requested_path == RequestedPath(box.request)
    IN  /\ Len(requested_path) > Len(Sandbox) + 1
        /\ StartsWith(requested_path, Sandbox)
        /\ \A i \in 1..Len(requested_path) : requested_path[i] # ".."
        /\ Resolve(box.before, Parent(requested_path)).status = "missing"

\* C25: write_file to a path inside the sandbox whose parent directory does
\* not exist succeeds and writes the file.
C25_CreatesMissingParents ==
    (box.pc = "done" /\ box.tool = "write_file" /\ ParentMissing)
    => box.result = "Ok" /\ touched # {}

(***************************************************************************)
(*                  PROPERTIES OF THE EXTERNAL TOOL NAMES                  *)
(***************************************************************************)

\* C21: call_tool with the published name of a tool invokes that tool on
\* its server, and with a name no tool is published under it fails with
\* not found.
C21_NameRoutesToItsTool ==
    outcome # NoOutcome =>
        /\ \A c \in given.connections : \A t \in c.tools :
            PrefixedName(c.name, t) = given.prefixed_name
                => outcome = [result |-> "Ok", server |-> c.name, tool |-> t]
        /\ (\A c \in given.connections : \A t \in c.tools :
                PrefixedName(c.name, t) # given.prefixed_name)
            => outcome = [result |-> "MCP tool not found"]

\* The same for the catalogs that publish no name twice.
C21_WithDistinctNames ==
    (\A c, d \in given.connections : \A t \in c.tools, u \in d.tools :
        PrefixedName(c.name, t) = PrefixedName(d.name, u) => c = d /\ t = u)
    => C21_NameRoutesToItsTool

(***************************************************************************)
(*                PROPERTIES OF THE SKILLS AND THE PROMPT                  *)
(***************************************************************************)

\* The content of the first system message of a list of messages.
SystemPromptOf(msgs) ==
    msgs[CHOOSE i \in 1..Len(msgs) :
            /\ msgs[i].role = "system"
            /\ \A j \in 1..(i - 1) : msgs[j].role # "system"].content

\* C22: the system prompt a turn sends to the LLM is the rendering of one
\* whole registry, and of one that was live when the turn started or was
\* installed after that: of the registry of the last reload_skills that
\* completed before the turn started, or of a later one.
C22_PromptFromLiveRegistry ==
    \A a \in Actors :
        chat[a].sent # <<>> =>
            /\ \E i \in 1..Len(chat[a].sent) : chat[a].sent[i].role = "system"
            /\ \E v \in chat[a].since..Len(installed) :
                SystemPromptOf(chat[a].sent) = BuildSystemPrompt(installed[v])

\* A turn that started after a reload_skills changed the registry, in a
\* conversation whose persisted system message is of the old registry, has
\* sent the prompt of the new registry.
C22_Witness ==
    \E a \in Actors :
        /\ chat[a].sent # <<>>
        /\ chat[a].since >= 2
        /\ installed[chat[a].since] # installed[1]
        /\ persisted[1] = SystemRow(BuildSystemPrompt(installed[1]))
        /\ SystemPromptOf(chat[a].sent) = BuildSystemPrompt(installed[chat[a].since])

\* C38: a reload_skills whose load of the directory fails leaves the registry
\* as it is and returns an error string; the registry changes only in the
\* step that installs a registry that was loaded completely.
C38_FailedReloadKeepsRegistry ==
    /\ [][\A a \in Actors :
            (chat[a].pc = "reload" /\ chat'[a].pc = "llm") =>
                /\ skills' = skills
                /\ installed' = installed
                /\ chat'[a].result = "Failed to reload skills"]_vars
    /\ [][(skills' # skills \/ installed' # installed) =>
            \E a \in Actors :
                /\ chat[a].pc = "swap"
                /\ skills' = chat[a].new_registry
                /\ chat'[a].result = "Skills reloaded"]_vars

\* A reload failed while the directory differs from a non-empty registry:
\* the registry is still the one of the start.
C38_Witness ==
    \E a \in Actors :
        /\ chat[a].pc = "llm"
        /\ chat[a].result = "Failed to reload skills"
        /\ skills # {} /\ skillsDir # skills
        /\ Len(installed) = 1

(***************************************************************************)
(*                     PROPERTIES OF WRITE_SKILL_FILE                      *)
(***************************************************************************)

\* skill_name matches ^[a-z0-9-]{1,64}$
NameMatches(name) ==
    /\ Len(name) \in 1..64
    /\ \A i \in 1..Len(name) : name[i] \in AsciiLowercase \cup AsciiDigit \cup {"-"}

\* relative_path is non-empty, not absolute and has no ".." segment.
PathAllowed(path) ==
    /\ path # <<>>
    /\ path[1] # "/"
    /\ \A i \in 1..Len(SplitSlash(path)) : SplitSlash(path)[i] # <<".", ".">>

\* C23: write_skill_file writes only if skill_name matches ^[a-z0-9-]{1,64}$
\* and relative_path is non-empty, not absolute and without a ".." segment;
\* on every other input it returns an error and writes nothing; and what it
\* writes lies below {skills_dir}/{skill_name}/.
C23_WritesOnlyValidated ==
    outcome # NoOutcome =>
        LET valid == NameMatches(given.skill_name) /\ PathAllowed(given.relative_path)
            dir == Append(SkillsDir, given.skill_name)
        IN  /\ outcome.written # {} => valid
            /\ ~valid => outcome.result \in {"Invalid skill_name", "Invalid relative_path"}
                            /\ outcome.written = {}
            /\ \A path \in outcome.written :
                StartsWith(path, dir) /\ Len(path) > Len(dir)

\* A file was written in a subdirectory of the skill's directory.
C23_Witness ==
    /\ outcome # NoOutcome
    /\ outcome.result = "Written"
    /\ \E path \in outcome.written : Len(path) = Len(SkillsDir) + 3

(***************************************************************************)
(*                   PROPERTIES OF THE OUTBOUND CHUNKS                     *)
(***************************************************************************)

RECURSIVE Concat(_)
Concat(chunks) ==
    IF chunks = <<>> THEN <<>> ELSE Head(chunks) \o Concat(Tail(chunks))

\* The call returned chunks that concatenate to the text, each of at most
\* max_len characters.
ChunksRebuildText ==
    /\ outcome.returns
    /\ Concat(outcome.chunks) = given.text
    /\ \A i \in 1..Len(outcome.chunks) : Len(outcome.chunks[i]) <= given.max_len

C39_SplitMessageReturns ==
    (outcome # NoOutcome /\ outcome.result = "split_message") => outcome.returns

(***************************************************************************)
(*                     PROPERTIES OF THE TASK LISTS                        *)
(***************************************************************************)

\* The rows a list names, and whether it names a row twice.
Listed == {outcome.tasks[i] : i \in 1..Len(outcome.tasks)}

ListedOnce == Cardinality(Listed) = Len(outcome.tasks)

\* C26: list_scheduled_tasks returns exactly the calling user's rows whose
\* status is active, and list_all_active exactly the rows of all users whose
\* status is active.
C26_ListsExactlyActive ==
    /\ (outcome # NoOutcome /\ outcome.result = "list_scheduled_tasks") =>
        /\ ListedOnce
        /\ Listed = {id \in 1..MaxRows :
                        given.table[id].user_id = given.user_id
                            /\ given.table[id].status = "active"}
    /\ (outcome # NoOutcome /\ outcome.result = "restore_scheduled_tasks") =>
        /\ ListedOnce
        /\ Listed = {id \in 1..MaxRows : given.table[id].status = "active"}

\* list_scheduled_tasks returned one task from a table that also holds an
\* active task of another user and a cancelled task of the caller.
C26_Witness ==
    /\ outcome # NoOutcome /\ outcome.result = "list_scheduled_tasks"
    /\ Len(outcome.tasks) = 1
    /\ \E id \in 1..MaxRows :
            given.table[id].user_id # given.user_id /\ given.table[id].status = "active"
    /\ \E id \in 1..MaxRows :
            given.table[id].user_id = given.user_id /\ given.table[id].status = "cancelled"

\* C40: cancel_scheduled_task in a turn of one user changes neither the
\* status nor the engine job of a task of another user.
C40_CancelsOwnTasksOnly ==
    outcome # NoOutcome =>
        \A id \in 1..MaxRows :
            given.table[id].user_id # given.user_id =>
                /\ outcome.table[id] = given.table[id]
                /\ JobOf(id) \in outcome.engine <=> JobOf(id) \in given.engine

(***************************************************************************)
(*                   PROPERTIES OF THE CRON VALIDATION                     *)
(***************************************************************************)

\* The number of fields of the trigger_value: the places where a character
\* that is no whitespace starts the text or follows whitespace.
FieldCount ==
    Cardinality({i \in 1..Len(given.trigger_value) :
        /\ ~IsWhitespace(given.trigger_value[i])
        /\ (i = 1 \/ IsWhitespace(given.trigger_value[i - 1]))})

\* C27: a recurring schedule_task request is rejected, with nothing
\* persisted, if and only if its trigger_value does not split into 6
\* whitespace-separated fields; with 6 fields it is accepted.
C27_SixFieldsExactly ==
    (outcome # NoOutcome /\ "persisted" \in DOMAIN outcome) =>
        /\ outcome.persisted <=> FieldCount = 6
        /\ ~outcome.persisted <=> outcome.result = "Invalid cron expression"

\* An expression of 6 fields with doubled and trailing whitespace was
\* accepted.
C27_Witness ==
    /\ outcome # NoOutcome /\ "persisted" \in DOMAIN outcome
    /\ outcome.persisted
    /\ Len(given.trigger_value) = MaxExpr
    /\ IsWhitespace(given.trigger_value[MaxExpr])

(***************************************************************************)
(*         PROPERTIES OF THE JOB RUNNER, REQUEST BY REQUEST                *)
(***************************************************************************)

\* The runner is done with the requests 1..Len(handled), in that order, is
\* working on at most the next one, and the channel holds the ones behind.
InSendOrder ==
    /\ \A i \in 1..Len(handled) : handled[i].seq = i
    /\ runner.pc \in {"agent", "reply"} => runner.req.seq = Len(handled) + 1
    /\ \A i \in 1..Len(job_rx) :
            job_rx[i].seq = Len(handled) + i + (IF runner.pc \in {"agent", "reply"} THEN 1 ELSE 0)

\* C32: the runner processes the requests one at a time in the order they
\* were sent, and every request that was sent is processed, whatever became
\* of the requests before it (agent call failed, chat id unparseable).
C32_RunnerDrainsInOrder ==
    /\ []InSendOrder
    /\ \A n \in 1..MaxSends : (sent >= n) ~> (Len(handled) >= n)

\* The first request's agent call failed, the second had an unparseable chat
\* id, and the third was answered.
C32_Witness ==
    /\ Len(handled) = 3
    /\ handled[1].result = "agent failed"
    /\ handled[2].result = "unparseable chat_id"
    /\ handled[3].result = "sent"

(***************************************************************************)
(*         PROPERTIES OF THE CONNECTION MUTEX AND THE EMBEDDER             *)
(***************************************************************************)

\* C36: no task has an embedding request in flight while it holds the
\* connection mutex (remember, search_knowledge, save_message and the task
\* save_message spawns).
C36_NoEmbeddingUnderLock ==
    \A t \in inflight : conn # t

\* A remember call waits for its embedding while the task spawned by a
\* save_message holds the connection and a search_knowledge call, its
\* embedding obtained, waits for the mutex.
C36_Witness ==
    /\ op["t1"].kind = "remember" /\ "t1" \in inflight
    /\ \E b \in Background : conn = b /\ op[b].kind = "embed_message"
    /\ op["t2"].kind = "search_knowledge" /\ AtStep("t2", "lock")

(***************************************************************************)
(*         PROPERTIES OF A TURN ON A CONVERSATION THAT HAS MESSAGES        *)
(***************************************************************************)

\* The call of actor a loaded a conversation that had messages: it runs, and
\* the first message it holds is not one it made itself.
LoadedMessages(a) ==
    /\ turn[a].pc \in {"system", "user", "llm", "tools"}
    /\ turn[a].messages # <<>>
    /\ turn[a].messages[1].by # turn[a].id

IsPrefix(rows, more) ==
    /\ Len(rows) <= Len(more)
    /\ \A i \in 1..Len(rows) : more[i] = rows[i]

\* C37: a process_message call that found messages in the conversation
\* leaves every persisted row as it is and adds only user, assistant and
\* tool rows; the step that refreshes the system prompt changes the list in
\* memory only.
C37_NoSystemRowForExisting ==
    [][\A a \in Actors :
        (LoadedMessages(a) /\ turn'[a] # turn[a]) =>
            /\ IsPrefix(db, db')
            /\ \A i \in (Len(db) + 1)..Len(db') :
                    /\ db'[i].role \in {"user", "assistant", "tool"}
                    /\ db'[i].by = turn[a].id
            /\ turn[a].pc = "system" =>
                    /\ db' = db
                    /\ turn'[a].messages = RefreshSystem(turn[a].messages)]_vars

\* Such a call has returned, having saved its user message, an assistant
\* message with a tool call, the tool result and the answer.
C37_Witness ==
    \E a \in Actors :
        /\ turn[a].pc = "done" /\ turn[a].ret = "answer"
        /\ turn[a].messages[1].by # turn[a].id
        /\ \A r \in {"user", "assistant", "tool"} :
                \E i \in 1..Len(db) : db[i].role = r /\ db[i].by = turn[a].id
        /\ \A i \in 1..Len(db) : db[i].role = "system" => db[i].by # turn[a].id

====
